---- MODULE Spec2Model ----
(***************************************************************************)
(* Model of the nodescope storage adapters (packages/core/src/storage):    *)
(* the in-memory bounded map, the SQLite table and the MySQL / PostgreSQL  *)
(* tables, driven through the StorageAdapter contract.                     *)
(***************************************************************************)
EXTENDS Integers, Sequences, FiniteSets, TLC

VARIABLES driver, maxEntries, entries, entriesByBatch, entriesByType, rows,
          savedIds, resaves, last, side, config, clients, readyState, sent,
          initialized, storage, adapters, closedAdapters, heartbeatInterval,
          timers, handles, cleanupFns, listeners, calls, now,
          currentBatchId, contexts, nanoids,
          batchLeft, failures, exited, hookCalls, attempts, recorded, runs

\* the orchestrator's life cycle: the initialized flag, the adapter held in
\* this.storage, the adapters created and closed so far, the real-time
\* server's heartbeatInterval, the interval timers that are active, the
\* number of handles (timers, listener pairs) handed out, the cleanup
\* functions, the process listeners installed, the initialize calls in
\* flight and the clock
lifeVars == <<initialized, storage, adapters, closedAdapters, heartbeatInterval,
              timers, handles, cleanupFns, listeners, calls, now>>

\* the request contexts: currentBatchId, the context each unit of work
\* holds and the number of ids nanoid has produced
contextVars == <<currentBatchId, contexts, nanoids>>

\* what runs beside the orchestrator: the entries a saveBatch call of the
\* in-memory adapter has still to save, the process-level failures waiting
\* for their listeners, whether the process has exited, the number of
\* recordEntry calls made by the global hook, and the job trackers: the
\* attempts counter of each, the record calls made and the wrapped
\* processor invocations
processVars == <<batchLeft, failures, exited, hookCalls, attempts, recorded, runs>>

hookVars == <<failures, exited, hookCalls>>

jobVars == <<attempts, recorded, runs>>

\* the orchestrator's configuration and the real-time server's observers
scopeVars == <<config, clients, readyState, sent, lifeVars, contextVars,
               processVars>>

vars == <<driver, maxEntries, entries, entriesByBatch, entriesByType, rows,
          savedIds, resaves, last, side, scopeVars>>

(***************************************************************************)
(* Bounds of the model.                                                    *)
(***************************************************************************)
MaxLimit == 2
MaxResaves == 1
EvictIds == 12

(***************************************************************************)
(* Program constants.                                                      *)
(***************************************************************************)
DefaultMaxEntries == 1000
DefaultLimit == 50
DefaultOffset == 0
EvictDivisor == 10

(***************************************************************************)
(* JavaScript undefined / null and present optional values.  Optional      *)
(* fields are always wrapped so that absent and present values compare.    *)
(***************************************************************************)
Undef == <<"undefined">>
Null == <<"null">>
Some(v) == <<"value", v>>
IsSome(o) == Len(o) = 2
Val(o) == o[2]

\* `a ?? b`
Coalesce(a, b) == IF a = Undef \/ a = Null THEN b ELSE a

EntryTypes == <<"request", "query", "cache", "log", "exception",
                "http_client", "event", "job", "schedule", "dump">>

AllTypes == {EntryTypes[i] : i \in 1..Len(EntryTypes)}

Drivers == {"memory", "sqlite", "postgresql", "mysql"}

\* the ids, batch ids, types and creation times of the entries saved
Ids == {1, 2}
BatchIds == {1, 2}
Types == {"request", "query"}
Times == {0, 1}
Payloads == {1, 2}

(***************************************************************************)
(* Sequence helpers.                                                       *)
(***************************************************************************)
Range(s) == {s[i] : i \in 1..Len(s)}

Includes(s, x) == \E i \in 1..Len(s) : s[i] = x

Min(a, b) == IF a < b THEN a ELSE b

Max(a, b) == IF a > b THEN a ELSE b

\* Array.prototype.slice(from, to) on a 0-based array
Slice(s, from, to) == SubSeq(s, from + 1, Min(to, Len(s)))

(***************************************************************************)
(* Entry model (types.ts Entry).  content is a log-like payload with a     *)
(* required message and an optional context; duration and memoryUsage are  *)
(* optional numbers.                                                       *)
(***************************************************************************)
Content(p) ==
  IF p = 1 THEN [message |-> "Err", context |-> Undef]
  ELSE IF p = 2 THEN [message |-> "ok", context |-> Some("ctx")]
  ELSE [message |-> "ok", context |-> Undef]

Tags(p) ==
  IF p = 1 THEN <<"t1">>
  ELSE IF p = 2 THEN <<>>
  ELSE IF p = 3 THEN <<"t2", "t1">>
  ELSE <<"t2">>

Duration(p) == IF p = 2 THEN Some(0) ELSE IF p = 3 THEN Some(7) ELSE Undef

MemoryUsage(p) == IF p = 2 THEN Some(-3) ELSE Undef

Entry(i, b, ty, t, p) ==
  [id |-> i, batchId |-> b, type |-> ty, content |-> Content(p),
   tags |-> Tags(p), createdAt |-> t, duration |-> Duration(p),
   memoryUsage |-> MemoryUsage(p)]

Entries ==
  {Entry(i, b, ty, t, p) :
     i \in Ids, b \in BatchIds, ty \in Types, t \in Times, p \in Payloads}

(***************************************************************************)
(* Conversions between an Entry and a table row.                           *)
(***************************************************************************)
\* JSON.stringify(content): members with an undefined value are left out
JSONStringify(c) ==
  <<"{">> \o << <<"message", c.message>> >>
          \o (IF c.context = Undef THEN <<>> ELSE << <<"context", Val(c.context)>> >>)
          \o <<"}">>

JSONMember(text, key) ==
  LET hits == {i \in 2..(Len(text) - 1) : text[i][1] = key}
  IN  IF hits = {} THEN Undef ELSE Some(text[CHOOSE i \in hits : TRUE][2])

\* JSON.parse(row.content)
JSONParse(text) ==
  [message |-> Val(JSONMember(text, "message")),
   context |-> JSONMember(text, "context")]

\* JSON.stringify(tags) and JSON.parse(row.tags) on an array of strings
JSONStringifyArray(a) == <<"[">> \o a \o <<"]">>

JSONParseArray(text) == SubSeq(text, 2, Len(text) - 1)

\* Date.prototype.toISOString and new Date(text)
ToISOString(t) == <<"iso", t>>

\* a Date bound as a DATETIME(3) / TIMESTAMPTZ parameter
ToDateTime(t) == <<"datetime", t>>

NewDate(x) == x[2]

\* the parameter list of SQLiteStorage.save
SQLiteParams(e) ==
  [id |-> e.id, batch_id |-> e.batchId, type |-> e.type,
   content |-> JSONStringify(e.content), tags |-> JSONStringifyArray(e.tags),
   created_at |-> ToISOString(e.createdAt),
   duration |-> Coalesce(e.duration, Null),
   memory_usage |-> Coalesce(e.memoryUsage, Null)]

\* the parameter list of MySQLStorage.save and PostgreSQLStorage.save
SQLParams(e) ==
  [id |-> e.id, batch_id |-> e.batchId, type |-> e.type,
   content |-> JSONStringify(e.content), tags |-> JSONStringifyArray(e.tags),
   created_at |-> ToDateTime(e.createdAt),
   duration |-> Coalesce(e.duration, Null),
   memory_usage |-> Coalesce(e.memoryUsage, Null)]

\* rowToEntry without the `?? undefined` of duration and memory_usage
rowToEntryKeepsNull(row) ==
  [id |-> row.id, batchId |-> row.batch_id, type |-> row.type,
   content |-> JSONParse(row.content), tags |-> JSONParseArray(row.tags),
   createdAt |-> NewDate(row.created_at),
   duration |-> row.duration,
   memoryUsage |-> row.memory_usage]

rowToEntry(row) ==
  [id |-> row.id, batchId |-> row.batch_id, type |-> row.type,
   content |-> JSONParse(row.content), tags |-> JSONParseArray(row.tags),
   createdAt |-> NewDate(row.created_at),
   duration |-> Coalesce(row.duration, Undef),
   memoryUsage |-> Coalesce(row.memory_usage, Undef)]

(***************************************************************************)
(* MemoryStorage: the entries Map in insertion order and its two indexes   *)
(* (Map<key, Set<id>>, each Set in insertion order, absent key = empty).   *)
(***************************************************************************)
IndexOfId(s, i) == CHOOSE k \in 1..Len(s) : s[k].id = i

HasId(s, i) == \E k \in 1..Len(s) : s[k].id = i

Without(s, x) == SelectSeq(s, LAMBDA y : y # x)

\* Set.prototype.add
SetAdd(s, x) == IF Includes(s, x) THEN s ELSE Append(s, x)

\* Map.prototype.set keyed by entry id
MapSet(s, e) ==
  IF HasId(s, e.id) THEN [s EXCEPT ![IndexOfId(s, e.id)] = e] ELSE Append(s, e)

removeFromIndexes(st, e) ==
  [st EXCEPT !.byBatch[e.batchId] = Without(@, e.id),
             !.byType[e.type] = Without(@, e.id)]

addToIndexes(st, e) ==
  [st EXCEPT !.byBatch[e.batchId] = SetAdd(@, e.id),
             !.byType[e.type] = SetAdd(@, e.id)]

\* an eviction loop that drops the last n keys of the Map
RECURSIVE EvictNewest(_, _)
EvictNewest(st, n) ==
  IF n = 0 \/ st.entries = <<>> THEN st
  ELSE LET newEntry == st.entries[Len(st.entries)]
           st1 == removeFromIndexes(st, newEntry)
       IN  EvictNewest([st1 EXCEPT !.entries = SubSeq(@, 1, Len(@) - 1)], n - 1)

\* the eviction loop of save: drops the first n keys of the Map
RECURSIVE EvictOldest(_, _)
EvictOldest(st, n) ==
  IF n = 0 \/ st.entries = <<>> THEN st
  ELSE LET oldEntry == Head(st.entries)
           st1 == removeFromIndexes(st, oldEntry)
       IN  EvictOldest([st1 EXCEPT !.entries = Tail(@)], n - 1)

MemorySave(st, max, e) ==
  LET st1 == IF Len(st.entries) >= max
             THEN EvictOldest(st, max \div EvictDivisor)
             ELSE st
      st2 == [st1 EXCEPT !.entries = MapSet(@, e)]
  IN  addToIndexes(st2, e)

RECURSIVE MemorySaveBatch(_, _, _)
MemorySaveBatch(st, max, es) ==
  IF es = <<>> THEN st
  ELSE MemorySaveBatch(MemorySave(st, max, Head(es)), max, Tail(es))

MemoryFind(st, i) ==
  IF HasId(st.entries, i) THEN Some(st.entries[IndexOfId(st.entries, i)]) ELSE Null

(***************************************************************************)
(* SQL tables: a sequence of rows in physical order, id is the key.        *)
(***************************************************************************)
\* INSERT OR REPLACE: a row with the same id is deleted, the new row is added
SQLiteSave(tbl, e) ==
  Append(SelectSeq(tbl, LAMBDA r : r.id # e.id), SQLiteParams(e))

\* INSERT IGNORE: a row with the same id is left as it is
MySQLSaveInsertIgnore(tbl, e) ==
  IF HasId(tbl, e.id) THEN tbl ELSE Append(tbl, SQLParams(e))

\* INSERT ... ON DUPLICATE KEY UPDATE content, tags, duration, memory_usage
MySQLSave(tbl, e) ==
  LET new == SQLParams(e)
  IN  IF HasId(tbl, e.id)
      THEN [tbl EXCEPT ![IndexOfId(tbl, e.id)] =
              [@ EXCEPT !.content = new.content, !.tags = new.tags,
                        !.duration = new.duration,
                        !.memory_usage = new.memory_usage]]
      ELSE Append(tbl, new)

\* INSERT ... ON CONFLICT (id) DO UPDATE SET content, tags, duration, memory_usage
PostgreSQLSave(tbl, e) ==
  LET new == SQLParams(e)
  IN  IF HasId(tbl, e.id)
      THEN [tbl EXCEPT ![IndexOfId(tbl, e.id)] =
              [@ EXCEPT !.content = new.content, !.tags = new.tags,
                        !.duration = new.duration,
                        !.memory_usage = new.memory_usage]]
      ELSE Append(tbl, new)

SQLSave(d, tbl, e) ==
  IF d = "sqlite" THEN SQLiteSave(tbl, e)
  ELSE IF d = "mysql" THEN MySQLSave(tbl, e)
  ELSE PostgreSQLSave(tbl, e)

RECURSIVE SQLSaveBatch(_, _, _)
SQLSaveBatch(d, tbl, es) ==
  IF es = <<>> THEN tbl
  ELSE SQLSaveBatch(d, SQLSave(d, tbl, Head(es)), Tail(es))

\* SELECT * FROM entries WHERE id = ?
SQLFind(tbl, i) ==
  IF HasId(tbl, i) THEN Some(rowToEntry(tbl[IndexOfId(tbl, i)])) ELSE Null

(***************************************************************************)
(* list(options).  An option that is not supplied is Undef.                *)
(***************************************************************************)
\* tags.every((t) => e.tags.includes(t))
HasAllTags(e, tags) == \A k \in 1..Len(tags) : Includes(e.tags, tags[k])

\* tags.some((t) => e.tags.includes(t))
HasAnyTag(e, tags) == \E k \in 1..Len(tags) : Includes(e.tags, tags[k])

\* results.sort((a, b) => b.createdAt - a.createdAt): stable, newest first
RECURSIVE SortDesc(_)
SortDesc(s) ==
  IF s = <<>> THEN <<>>
  ELSE LET newest == CHOOSE k \in 1..Len(s) :
                       /\ \A j \in 1..Len(s) : s[j].createdAt <= s[k].createdAt
                       /\ \A j \in 1..(k - 1) : s[j].createdAt < s[k].createdAt
       IN  <<s[newest]>> \o SortDesc(SubSeq(s, 1, newest - 1) \o SubSeq(s, newest + 1, Len(s)))

\* Array.from(ids).map((id) => entries.get(id)).filter((e) => e !== undefined)
EntriesOfIds(st, ids) ==
  LET found == SelectSeq(ids, LAMBDA i : HasId(st.entries, i))
  IN  [k \in 1..Len(found) |-> st.entries[IndexOfId(st.entries, found[k])]]

\* the result envelope with hasMore computed as offset + limit <= total
PageInclusive(results, total, o) ==
  LET limit == Val(Coalesce(o.limit, Some(DefaultLimit)))
      offset == Val(Coalesce(o.offset, Some(DefaultOffset)))
  IN  [data |-> Slice(results, offset, offset + limit), total |-> total,
       limit |-> limit, offset |-> offset, hasMore |-> offset + limit <= total]

Page(results, total, o) ==
  LET limit == Val(Coalesce(o.limit, Some(DefaultLimit)))
      offset == Val(Coalesce(o.offset, Some(DefaultOffset)))
  IN  [data |-> Slice(results, offset, offset + limit), total |-> total,
       limit |-> limit, offset |-> offset, hasMore |-> offset + limit < total]

\* the filters and the sort of MemoryStorage.list
MemoryListResults(st, o) ==
  LET r0 == IF IsSome(o.type) THEN EntriesOfIds(st, st.byType[Val(o.type)])
            ELSE IF IsSome(o.batchId) THEN EntriesOfIds(st, st.byBatch[Val(o.batchId)])
            ELSE st.entries
      r1 == IF IsSome(o.tags) /\ Len(Val(o.tags)) > 0
            THEN SelectSeq(r0, LAMBDA e : HasAnyTag(e, Val(o.tags)))
            ELSE r0
      r2 == IF IsSome(o.before)
            THEN SelectSeq(r1, LAMBDA e : e.createdAt < Val(o.before))
            ELSE r1
      r3 == IF IsSome(o.after)
            THEN SelectSeq(r2, LAMBDA e : e.createdAt > Val(o.after))
            ELSE r2
  IN  SortDesc(r3)

MemoryList(st, o) ==
  LET results == MemoryListResults(st, o)
  IN  Page(results, Len(results), o)

\* a number that is not a number; a limit or offset is Undef, Some(n) or NaN
NaN == <<"NaN">>

\* a + b and a < n on numbers that may be NaN
JSAdd(a, b) == IF a = NaN \/ b = NaN THEN NaN ELSE Some(Val(a) + Val(b))

JSLess(a, n) == IF a = NaN THEN FALSE ELSE Val(a) < n

\* the index Array.prototype.slice makes of an argument: NaN is 0, a
\* negative number counts from the end
RelativeIndex(x, len) ==
  IF x = NaN THEN 0
  ELSE IF Val(x) < 0 THEN Max(len + Val(x), 0)
  ELSE Min(Val(x), len)

\* results.slice(offset, offset + limit) and the result envelope when limit
\* or offset is NaN or negative
PageJS(results, total, o) ==
  LET limit == Coalesce(o.limit, Some(DefaultLimit))
      offset == Coalesce(o.offset, Some(DefaultOffset))
      from == RelativeIndex(offset, Len(results))
      to == RelativeIndex(JSAdd(offset, limit), Len(results))
  IN  [data |-> SubSeq(results, from + 1, to), total |-> total,
       limit |-> limit, offset |-> offset,
       hasMore |-> JSLess(JSAdd(offset, limit), total)]

MemoryListJS(st, o) ==
  LET results == MemoryListResults(st, o)
  IN  PageJS(results, Len(results), o)

\* the WHERE clause shared by the three SQL adapters (type, batch_id,
\* created_at bounds); created_at compares as the stored text / datetime
SQLWhere(r, o) ==
  /\ IsSome(o.type) => r.type = Val(o.type)
  /\ IsSome(o.batchId) => r.batch_id = Val(o.batchId)
  /\ IsSome(o.before) => NewDate(r.created_at) < Val(o.before)
  /\ IsSome(o.after) => NewDate(r.created_at) > Val(o.after)

\* tags ?| $n : some element of the tags array is one of the given strings
PgTagsMatch(r, o) ==
  (IsSome(o.tags) /\ Len(Val(o.tags)) > 0) =>
     \E k \in 1..Len(Val(o.tags)) : Includes(JSONParseArray(r.tags), Val(o.tags)[k])

IndexOrders(n) ==
  {f \in [1..n -> 1..n] : \A a, b \in 1..n : a # b => f[a] # f[b]}

\* ORDER BY created_at DESC: every order of the selected rows that is
\* non-increasing in created_at (rows with equal created_at come in any order)
OrderByCreatedAtDesc(sel) ==
  {[k \in 1..Len(sel) |-> sel[f[k]]] : f \in
     {g \in IndexOrders(Len(sel)) :
        \A k \in 1..(Len(sel) - 1) :
           NewDate(sel[g[k]].created_at) >= NewDate(sel[g[k + 1]].created_at)}}

\* LIMIT ? OFFSET ?
LimitOffset(ordered, o) ==
  LET limit == Val(Coalesce(o.limit, Some(DefaultLimit)))
      offset == Val(Coalesce(o.offset, Some(DefaultOffset)))
  IN  Slice(ordered, offset, offset + limit)

\* SQLiteStorage.list given the order the query returned the rows in
SQLiteList(tbl, o, ordered) ==
  LET total == Len(SelectSeq(tbl, LAMBDA r : SQLWhere(r, o)))
      page == LimitOffset(ordered, o)
      data == [k \in 1..Len(page) |-> rowToEntry(page[k])]
      filteredData == IF IsSome(o.tags) /\ Len(Val(o.tags)) > 0
                      THEN SelectSeq(data, LAMBDA e : HasAnyTag(e, Val(o.tags)))
                      ELSE data
  IN  [Page(<<>>, total, o) EXCEPT !.data = filteredData]

\* MySQLStorage.list given the order the query returned the rows in
MySQLList(tbl, o, ordered) ==
  LET total == Len(SelectSeq(tbl, LAMBDA r : SQLWhere(r, o)))
      page == LimitOffset(ordered, o)
      data == [k \in 1..Len(page) |-> rowToEntry(page[k])]
      filteredData == IF IsSome(o.tags) /\ Len(Val(o.tags)) > 0
                      THEN SelectSeq(data, LAMBDA e : HasAnyTag(e, Val(o.tags)))
                      ELSE data
  IN  [Page(<<>>, total, o) EXCEPT !.data = filteredData]

\* PostgreSQLStorage.list given the order the query returned the rows in
PostgreSQLList(tbl, o, ordered) ==
  LET total == Len(SelectSeq(tbl, LAMBDA r : SQLWhere(r, o) /\ PgTagsMatch(r, o)))
      page == LimitOffset(ordered, o)
  IN  [Page(<<>>, total, o) EXCEPT
         !.data = [k \in 1..Len(page) |-> rowToEntry(page[k])]]

\* the rows the paginated SELECT of each SQL adapter ranges over
SQLSelected(d, tbl, o) ==
  IF d = "postgresql"
  THEN SelectSeq(tbl, LAMBDA r : SQLWhere(r, o) /\ PgTagsMatch(r, o))
  ELSE SelectSeq(tbl, LAMBDA r : SQLWhere(r, o))

SQLList(d, tbl, o, ordered) ==
  IF d = "sqlite" THEN SQLiteList(tbl, o, ordered)
  ELSE IF d = "mysql" THEN MySQLList(tbl, o, ordered)
  ELSE PostgreSQLList(tbl, o, ordered)

(***************************************************************************)
(* findByBatch, prune, clear and stats.                                    *)
(***************************************************************************)
\* .sort((a, b) => a.createdAt - b.createdAt): stable, oldest first
RECURSIVE SortAsc(_)
SortAsc(s) ==
  IF s = <<>> THEN <<>>
  ELSE LET oldest == CHOOSE k \in 1..Len(s) :
                       /\ \A j \in 1..Len(s) : s[j].createdAt >= s[k].createdAt
                       /\ \A j \in 1..(k - 1) : s[j].createdAt > s[k].createdAt
       IN  <<s[oldest]>> \o SortAsc(SubSeq(s, 1, oldest - 1) \o SubSeq(s, oldest + 1, Len(s)))

\* findByBatch that returns the ids of the batch index newest first
MemoryFindByBatchDesc(st, b) == SortDesc(EntriesOfIds(st, st.byBatch[b]))

MemoryFindByBatch(st, b) == SortAsc(EntriesOfIds(st, st.byBatch[b]))

\* ORDER BY created_at ASC: every order of the selected rows that is
\* non-decreasing in created_at
OrderByCreatedAtAsc(sel) ==
  {[k \in 1..Len(sel) |-> sel[f[k]]] : f \in
     {g \in IndexOrders(Len(sel)) :
        \A k \in 1..(Len(sel) - 1) :
           NewDate(sel[g[k]].created_at) <= NewDate(sel[g[k + 1]].created_at)}}

\* WHERE batch_id = ?
SQLBatchRows(tbl, b) == SelectSeq(tbl, LAMBDA r : r.batch_id = b)

\* rows.map(rowToEntry) on the rows in the order the query returned them
SQLFindByBatch(ordered) == [k \in 1..Len(ordered) |-> rowToEntry(ordered[k])]

\* prune whose test is createdAt <= beforeDate
RECURSIVE MemoryPruneInclusive(_, _, _)
MemoryPruneInclusive(st, todo, c) ==
  IF todo = <<>> THEN [st |-> st, pruned |-> 0]
  ELSE LET entry == Head(todo)
       IN  IF entry.createdAt <= c
           THEN LET st1 == removeFromIndexes(st, entry)
                    st2 == [st1 EXCEPT !.entries = SelectSeq(@, LAMBDA e : e.id # entry.id)]
                    r == MemoryPruneInclusive(st2, Tail(todo), c)
                IN  [r EXCEPT !.pruned = @ + 1]
           ELSE MemoryPruneInclusive(st, Tail(todo), c)

\* the loop of MemoryStorage.prune over the entries still to visit
RECURSIVE MemoryPrune(_, _, _)
MemoryPrune(st, todo, c) ==
  IF todo = <<>> THEN [st |-> st, pruned |-> 0]
  ELSE LET entry == Head(todo)
       IN  IF entry.createdAt < c
           THEN LET st1 == removeFromIndexes(st, entry)
                    st2 == [st1 EXCEPT !.entries = SelectSeq(@, LAMBDA e : e.id # entry.id)]
                    r == MemoryPrune(st2, Tail(todo), c)
                IN  [r EXCEPT !.pruned = @ + 1]
           ELSE MemoryPrune(st, Tail(todo), c)

\* Map.prototype.clear on the entries and on both indexes
MemoryClear(st) ==
  [entries |-> <<>>, byBatch |-> [b \in DOMAIN st.byBatch |-> <<>>],
   byType |-> [ty \in DOMAIN st.byType |-> <<>>]]

\* a DELETE without the WHERE clause
SQLPruneKeepsNone(d, r, c) == FALSE

\* DELETE FROM entries WHERE created_at < ? with the cutoff bound as the
\* adapter binds it (ISO text for SQLite, a Date for MySQL and PostgreSQL)
SQLPruneKeeps(d, r, c) ==
  LET bound == IF d = "sqlite" THEN ToISOString(c) ELSE ToDateTime(c)
  IN  ~(NewDate(r.created_at) < NewDate(bound))

\* result.changes / affectedRows / rowCount ?? 0
SQLPrune(d, tbl, c) ==
  LET kept == SelectSeq(tbl, LAMBDA r : SQLPruneKeeps(d, r, c))
  IN  [rows |-> kept, pruned |-> Len(tbl) - Len(kept)]

\* DELETE FROM entries
SQLClear(tbl) == <<>>

defaultEntryCounts == [ty \in AllTypes |-> 0]

\* the loop of MemoryStorage.stats over entries.values()
RECURSIVE MemoryStatsLoop(_, _)
MemoryStatsLoop(todo, acc) ==
  IF todo = <<>> THEN acc
  ELSE LET entry == Head(todo)
           oldest == IF acc.oldestEntry = Undef \/ entry.createdAt < Val(acc.oldestEntry)
                     THEN Some(entry.createdAt) ELSE acc.oldestEntry
           newest == IF acc.newestEntry = Undef \/ entry.createdAt > Val(acc.newestEntry)
                     THEN Some(entry.createdAt) ELSE acc.newestEntry
       IN  MemoryStatsLoop(Tail(todo),
             [acc EXCEPT !.entriesByType[entry.type] = @ + 1,
                         !.oldestEntry = oldest, !.newestEntry = newest])

MemoryStats(st) ==
  [MemoryStatsLoop(st.entries,
     [totalEntries |-> 0, entriesByType |-> defaultEntryCounts,
      oldestEntry |-> Undef, newestEntry |-> Undef])
   EXCEPT !.totalEntries = Len(st.entries)]

\* SELECT type, COUNT(*) ... GROUP BY type: one row per type that has rows
GroupByType(tbl) ==
  {[type |-> ty, count |-> Len(SelectSeq(tbl, LAMBDA r : r.type = ty))] :
     ty \in {tbl[k].type : k \in 1..Len(tbl)}}

\* for (row of typeRows) entriesByType[row.type] = row.count
TypeCounts(typeRows) ==
  [ty \in AllTypes |->
     IF \E row \in typeRows : row.type = ty
     THEN (CHOOSE row \in typeRows : row.type = ty).count
     ELSE defaultEntryCounts[ty]]

\* SELECT MIN(created_at) / MAX(created_at): NULL on an empty table
MinCreatedAt(tbl) ==
  IF tbl = <<>> THEN Null
  ELSE (CHOOSE r \in Range(tbl) :
          \A q \in Range(tbl) : NewDate(r.created_at) <= NewDate(q.created_at)).created_at

MaxCreatedAt(tbl) ==
  IF tbl = <<>> THEN Null
  ELSE (CHOOSE r \in Range(tbl) :
          \A q \in Range(tbl) : NewDate(r.created_at) >= NewDate(q.created_at)).created_at

\* x ? new Date(x) : undefined
DateOrUndefined(x) == IF x = Null THEN Undef ELSE Some(NewDate(x))

\* stats that reports the newest createdAt as oldestEntry too
SQLiteStatsNewestOnly(tbl) ==
  [totalEntries |-> Len(tbl),
   entriesByType |-> TypeCounts(GroupByType(tbl)),
   oldestEntry |-> DateOrUndefined(MaxCreatedAt(tbl)),
   newestEntry |-> DateOrUndefined(MaxCreatedAt(tbl))]

SQLiteStats(tbl) ==
  [totalEntries |-> Len(tbl),
   entriesByType |-> TypeCounts(GroupByType(tbl)),
   oldestEntry |-> DateOrUndefined(MinCreatedAt(tbl)),
   newestEntry |-> DateOrUndefined(MaxCreatedAt(tbl))]

MySQLStats(tbl) ==
  [totalEntries |-> Len(tbl),
   entriesByType |-> TypeCounts(GroupByType(tbl)),
   oldestEntry |-> DateOrUndefined(MinCreatedAt(tbl)),
   newestEntry |-> DateOrUndefined(MaxCreatedAt(tbl))]

\* node-postgres returns COUNT(*) (a bigint) as decimal text
BigIntText(n) == <<"text", n>>

\* parseInt(text, 10)
ParseInt(x) == x[2]

PostgreSQLStats(tbl) ==
  [totalEntries |-> ParseInt(BigIntText(Len(tbl))),
   entriesByType |->
     TypeCounts({[type |-> row.type, count |-> ParseInt(BigIntText(row.count))] :
                   row \in GroupByType(tbl)}),
   oldestEntry |-> DateOrUndefined(MinCreatedAt(tbl)),
   newestEntry |-> DateOrUndefined(MaxCreatedAt(tbl))]

SQLStats(d, tbl) ==
  IF d = "sqlite" THEN SQLiteStats(tbl)
  ELSE IF d = "mysql" THEN MySQLStats(tbl)
  ELSE PostgreSQLStats(tbl)

(***************************************************************************)
(* saveBatch when the write of one entry fails.  failAt is the position of *)
(* the entry whose write throws (0: none does).                            *)
(***************************************************************************)
\* BEGIN / beginTransaction: the writes of the transaction go to a working
\* copy that other connections do not see
BeginTransaction(tbl) == [committed |-> tbl, working |-> tbl]

Execute(d, tx, e) == [tx EXCEPT !.working = SQLSave(d, @, e)]

Commit(tx) == tx.working

Rollback(tx) == tx.committed

\* pool.getConnection() / pool.connect() and connection.release(), on the
\* number of connections checked out of the pool
GetConnection(n) == n + 1

Release(n) == n - 1

\* for (const entry of entries) await execute(...), up to the write that throws
RECURSIVE TxLoop(_, _, _, _, _)
TxLoop(d, tx, es, k, failAt) ==
  IF k > Len(es) THEN [tx |-> tx, threw |-> FALSE]
  ELSE IF k = failAt THEN [tx |-> tx, threw |-> TRUE]
  ELSE TxLoop(d, Execute(d, tx, es[k]), es, k + 1, failAt)

\* a saveBatch whose catch block commits what was written before the failure
SQLSaveBatchTxNoRollback(d, tbl, es, failAt) ==
  LET r == TxLoop(d, BeginTransaction(tbl), es, 1, failAt)
  IN  [rows |-> Commit(r.tx), threw |-> r.threw,
       leased |-> IF d = "sqlite" THEN 0 ELSE Release(GetConnection(0))]

\* getConnection / connect, try { begin; loop; commit } catch { rollback;
\* throw } finally { release }; db.transaction(fn)(entries) for SQLite
SQLSaveBatchTx(d, tbl, es, failAt) ==
  LET r == TxLoop(d, BeginTransaction(tbl), es, 1, failAt)
  IN  [rows |-> IF r.threw THEN Rollback(r.tx) ELSE Commit(r.tx),
       threw |-> r.threw,
       leased |-> IF d = "sqlite" THEN 0 ELSE Release(GetConnection(0))]

\* for (const entry of entries) await this.save(entry), up to the save that throws
RECURSIVE MemorySaveBatchUntil(_, _, _, _, _)
MemorySaveBatchUntil(st, max, es, k, failAt) ==
  IF k > Len(es) THEN [st |-> st, threw |-> FALSE]
  ELSE IF k = failAt THEN [st |-> st, threw |-> TRUE]
  ELSE MemorySaveBatchUntil(MemorySave(st, max, es[k]), max, es, k + 1, failAt)

(***************************************************************************)
(* createStorageAdapter(driver, options).  The result is the adapter built *)
(* (its driver and, for the database adapters, the path or connection      *)
(* string handed to the constructor) or the error thrown.                  *)
(***************************************************************************)
\* options?.databaseUrl
DatabaseUrlOf(options) ==
  IF options = Undef THEN Undef ELSE Val(options).databaseUrl

\* JavaScript truthiness of an optional string
Truthy(x) == x # Undef /\ x # Null /\ x # Some("")

Adapter(d, arg) == [threw |-> FALSE, driver |-> d, arg |-> arg]

Threw(message) == [threw |-> TRUE, message |-> message]

DefaultDbPath == "./nodescope.db"

\* createStorageAdapter without the databaseUrl checks
createStorageAdapterUnchecked(d, options) ==
  IF d = "memory" THEN Adapter("memory", Undef)
  ELSE IF d = "sqlite"
    THEN Adapter("sqlite", IF Truthy(DatabaseUrlOf(options))
                           THEN DatabaseUrlOf(options) ELSE Some(DefaultDbPath))
  ELSE IF d = "postgresql" THEN Adapter("postgresql", DatabaseUrlOf(options))
  ELSE IF d = "mysql" THEN Adapter("mysql", DatabaseUrlOf(options))
  ELSE Threw("Unknown storage driver")

createStorageAdapter(d, options) ==
  IF d = "memory" THEN Adapter("memory", Undef)
  ELSE IF d = "sqlite"
    THEN Adapter("sqlite", IF Truthy(DatabaseUrlOf(options))
                           THEN DatabaseUrlOf(options) ELSE Some(DefaultDbPath))
  ELSE IF d = "postgresql"
    THEN IF ~Truthy(DatabaseUrlOf(options))
         THEN Threw("PostgreSQL requires a databaseUrl")
         ELSE Adapter("postgresql", DatabaseUrlOf(options))
  ELSE IF d = "mysql"
    THEN IF ~Truthy(DatabaseUrlOf(options))
         THEN Threw("MySQL requires a databaseUrl")
         ELSE Adapter("mysql", DatabaseUrlOf(options))
  ELSE Threw("Unknown storage driver")

(***************************************************************************)
(* ApiHandler.  A request is [method, path, query, fails]: path is the     *)
(* list of the segments of the URL path, a query value is Undef or a       *)
(* string given as the list of its characters, and fails says that the     *)
(* storage call of this request rejects.  A promise is Fulfilled or        *)
(* Rejected.  The search, tags, before and after query values are absent   *)
(* in every request of the model.                                          *)
(***************************************************************************)
Fulfilled(v) == [state |-> "fulfilled", value |-> v]

Rejected(message) == [state |-> "rejected", reason |-> message]

Digits == <<"0", "1", "2", "3", "4", "5", "6", "7", "8", "9">>

IsDigit(c) == \E k \in 1..Len(Digits) : Digits[k] = c

DigitValue(c) == (CHOOSE k \in 1..Len(Digits) : Digits[k] = c) - 1

\* the value and the length of the longest prefix of s made of digits
RECURSIVE DigitsPrefix(_, _, _)
DigitsPrefix(s, value, count) ==
  IF s = <<>> \/ ~IsDigit(Head(s)) THEN [value |-> value, count |-> count]
  ELSE DigitsPrefix(Tail(s), 10 * value + DigitValue(Head(s)), count + 1)

\* parseInt(text, 10): an optional sign, then the digits up to the first
\* character that is not one; NaN when there is no digit
parseInt(text) ==
  LET signed == text # <<>> /\ Head(text) \in {"-", "+"}
      r == DigitsPrefix(IF signed THEN Tail(text) ELSE text, 0, 0)
  IN  IF r.count = 0 THEN NaN
      ELSE IF signed /\ Head(text) = "-" THEN Some(0 - r.value)
      ELSE Some(r.value)

\* if (req.query.x): present and not the empty string
QueryGiven(q) == q # Undef /\ q # <<>>

\* the options listEntries builds from the query
listEntriesOptions(query) ==
  [type |-> IF QueryGiven(query.type) THEN Some(query.type[1]) ELSE Undef,
   batchId |-> IF QueryGiven(query.batchId) THEN Some(query.batchId[1]) ELSE Undef,
   tags |-> Undef, before |-> Undef, after |-> Undef,
   limit |-> IF QueryGiven(query.limit) THEN parseInt(query.limit) ELSE Undef,
   offset |-> IF QueryGiven(query.offset) THEN parseInt(query.offset) ELSE Undef]

\* a limit or offset the adapters are written for
SafeNumber(x) ==
  IF x = Undef THEN TRUE ELSE IF x = NaN THEN FALSE ELSE Val(x) >= 0

SafePaging(o) == SafeNumber(o.limit) /\ SafeNumber(o.offset)

\* the private methods: the promise each returns, given the promise of its
\* storage call
listEntries(listed) ==
  IF listed.state = "rejected" THEN listed
  ELSE Fulfilled([status |-> 200, body |-> listed.value])

getEntry(found) ==
  IF found.state = "rejected" THEN found
  ELSE IF found.value = Null
    THEN Fulfilled([status |-> 404, body |-> [error |-> "Entry not found"]])
  ELSE Fulfilled([status |-> 200, body |-> Val(found.value)])

getBatch(batchId, found) ==
  IF found.state = "rejected" THEN found
  ELSE Fulfilled([status |-> 200, body |-> [batchId |-> batchId, entries |-> found.value]])

getStats(counted) ==
  IF counted.state = "rejected" THEN counted
  ELSE Fulfilled([status |-> 200, body |-> counted.value])

clearEntries(cleared) ==
  IF cleared.state = "rejected" THEN cleared
  ELSE Fulfilled([status |-> 200, body |-> [success |-> TRUE]])

pruneEntries(pruned) ==
  IF pruned.state = "rejected" THEN pruned
  ELSE Fulfilled([status |-> 200, body |-> [success |-> TRUE, pruned |-> pruned.value]])

\* the route handle takes: the first test of the if chain that holds
Route(req) ==
  IF req.method = "GET" /\ req.path = <<"api", "entries">> THEN "listEntries"
  ELSE IF req.method = "GET" /\ Len(req.path) = 3 /\ SubSeq(req.path, 1, 2) = <<"api", "entries">>
    THEN "getEntry"
  ELSE IF req.method = "GET" /\ Len(req.path) = 3 /\ SubSeq(req.path, 1, 2) = <<"api", "batch">>
    THEN "getBatch"
  ELSE IF req.method = "GET" /\ req.path = <<"api", "stats">> THEN "getStats"
  ELSE IF req.method = "DELETE" /\ req.path = <<"api", "entries">> THEN "clearEntries"
  ELSE IF req.method = "POST" /\ req.path = <<"api", "prune">> THEN "pruneEntries"
  ELSE "notFound"

\* `return promise` inside try { } of an async function: the caller's
\* promise takes the outcome of the returned one; the catch block (status
\* 500) runs only for what is thrown while the try block itself executes,
\* and the route tests throw nothing
ReturnFromTry(promise) == promise

NotFound == Fulfilled([status |-> 404, body |-> [error |-> "Not found"]])

(***************************************************************************)
(* NodeScope.recordEntry and the RealTimeServer it broadcasts through.     *)
(* The registry is the clients Set in insertion order; readyState is the   *)
(* state of each observer's socket (1 is OPEN) and sent the data each      *)
(* observer was sent.                                                      *)
(***************************************************************************)
\* the filter callback: (entry) => entry.type !== 'query'
ApplyFilter(name, e) == IF name = Some("notQuery") THEN e.type # "query" ELSE TRUE

\* the tag callback: () => ['custom-tag', 'another-tag']
ApplyTag(name, e) ==
  IF name = Some("customTags") THEN <<"custom-tag", "another-tag">> ELSE <<>>

\* JSON.stringify of an entry: members with an undefined value are left
\* out, a Date becomes its ISO text
JSONStringifyEntry(e) ==
  << <<"id", e.id>>, <<"batchId", e.batchId>>, <<"type", e.type>>,
     <<"content", JSONStringify(e.content)>>,
     <<"tags", JSONStringifyArray(e.tags)>>,
     <<"createdAt", ToISOString(e.createdAt)>> >>
  \o (IF e.duration = Undef THEN <<>> ELSE << <<"duration", Val(e.duration)>> >>)
  \o (IF e.memoryUsage = Undef THEN <<>> ELSE << <<"memoryUsage", Val(e.memoryUsage)>> >>)

\* JSON.stringify({ type: 'entry', data: entry })
EntryMessage(e) == [type |-> "entry", data |-> JSONStringifyEntry(e)]

\* JSON.stringify({ type: 'connected', clients: n })
ConnectedMessage(n) == [type |-> "connected", clients |-> n]

\* a broadcast without the try around send: the first send that throws
\* ends the loop, the observer stays registered and the rest are not visited
RECURSIVE broadcastStopsOnFailure(_, _, _, _, _)
broadcastStopsOnFailure(todo, registry, log, data, failing) ==
  IF todo = <<>> THEN [clients |-> registry, sent |-> log]
  ELSE LET client == Head(todo)
       IN  IF readyState[client] # 1
           THEN broadcastStopsOnFailure(Tail(todo), registry, log, data, failing)
           ELSE IF client \in failing
             THEN [clients |-> registry, sent |-> log]
           ELSE broadcastStopsOnFailure(Tail(todo), registry,
                          [log EXCEPT ![client] = Append(@, data)], data, failing)

\* the loop of RealTimeServer.broadcast over the observers still to visit:
\* an open observer is sent the data; when send throws the observer is
\* deleted from the registry
RECURSIVE broadcast(_, _, _, _, _)
broadcast(todo, registry, log, data, failing) ==
  IF todo = <<>> THEN [clients |-> registry, sent |-> log]
  ELSE LET client == Head(todo)
       IN  IF readyState[client] # 1
           THEN broadcast(Tail(todo), registry, log, data, failing)
           ELSE IF client \in failing
             THEN broadcast(Tail(todo), Without(registry, client), log, data, failing)
           ELSE broadcast(Tail(todo), registry,
                          [log EXCEPT ![client] = Append(@, data)], data, failing)

\* recordEntry that applies the tag callback before the filter
recordEntryTagsFirst(cfg, e) ==
  IF ~cfg.enabled THEN [entry |-> e, save |-> FALSE]
  ELSE LET tagged == IF cfg.tag # Undef
                     THEN [e EXCEPT !.tags = e.tags \o ApplyTag(cfg.tag, e)]
                     ELSE e
       IN  IF cfg.filter # Undef /\ ~ApplyFilter(cfg.filter, e)
           THEN [entry |-> tagged, save |-> FALSE]
           ELSE [entry |-> tagged, save |-> TRUE]

\* recordEntry that puts the callback's tags in front of the entry's own
recordEntryTagsInFront(cfg, e) ==
  IF ~cfg.enabled THEN [entry |-> e, save |-> FALSE]
  ELSE IF cfg.filter # Undef /\ ~ApplyFilter(cfg.filter, e)
    THEN [entry |-> e, save |-> FALSE]
  ELSE [entry |-> IF cfg.tag # Undef
                  THEN [e EXCEPT !.tags = ApplyTag(cfg.tag, e) \o e.tags]
                  ELSE e,
        save |-> TRUE]

\* recordEntry up to the save: the entry object as the call leaves it and
\* whether the call goes on to storage.save and the broadcast
recordEntry(cfg, e) ==
  IF ~cfg.enabled THEN [entry |-> e, save |-> FALSE]
  ELSE IF cfg.filter # Undef /\ ~ApplyFilter(cfg.filter, e)
    THEN [entry |-> e, save |-> FALSE]
  ELSE [entry |-> IF cfg.tag # Undef
                  THEN [e EXCEPT !.tags = e.tags \o ApplyTag(cfg.tag, e)]
                  ELSE e,
        save |-> TRUE]

(***************************************************************************)
(* The adapter in use.                                                     *)
(***************************************************************************)
mem == [entries |-> entries, byBatch |-> entriesByBatch, byType |-> entriesByType]

find(i) == IF driver = "memory" THEN MemoryFind(mem, i) ELSE SQLFind(rows, i)

\* the entries held by the adapter, as find would return them
Stored ==
  IF driver = "memory" THEN entries
  ELSE [k \in 1..Len(rows) |-> rowToEntry(rows[k])]

NoOp == [op |-> "none", arg |-> Undef, prev |-> Undef, res |-> Undef]

\* four adapters, one per driver, each empty after construction
SideInit ==
  [memory |-> [entries |-> <<>>, byBatch |-> [b \in BatchIds |-> <<>>],
               byType |-> [ty \in AllTypes |-> <<>>]],
   sqlite |-> <<>>, mysql |-> <<>>, postgresql |-> <<>>]

\* new NodeScope(): DEFAULT_CONFIG, a RealTimeServer without observers
DefaultPruneAfterHours == 24

DefaultConfig ==
  [enabled |-> TRUE, realtime |-> TRUE, filter |-> Undef, tag |-> Undef,
   pruneAfterHours |-> DefaultPruneAfterHours, watchers |-> [exception |-> TRUE],
   authorization |-> Undef]

ClientIds == {1, 2}

NoObservers ==
  /\ clients = <<>>
  /\ readyState = [c \in ClientIds |-> 1]
  /\ sent = [c \in ClientIds |-> <<>>]

CallIds == {1, 2}

UnitIds == {1, 2}

\* the fields of a NodeScope after its constructor and before initialize;
\* the clock reads an hour late enough for every cutoff to be a date
\* the job trackers: one made by hand and one for each wrapped invocation
RunIds == {1, 2}

TrackerIds == {0} \cup RunIds

NotStarted ==
  /\ initialized = FALSE
  /\ storage = Undef
  /\ adapters = 0
  /\ closedAdapters = {}
  /\ heartbeatInterval = Undef
  /\ timers = {}
  /\ handles = 0
  /\ cleanupFns = <<>>
  /\ listeners = {}
  /\ calls = [c \in CallIds |-> [pc |-> "idle", adapter |-> 0]]
  /\ currentBatchId = Undef
  /\ contexts = [u \in UnitIds |-> Undef]
  /\ nanoids = 0
  /\ batchLeft = <<>>
  /\ failures = <<>>
  /\ exited = FALSE
  /\ hookCalls = 0
  /\ attempts = [t \in TrackerIds |-> 0]
  /\ recorded = [t \in TrackerIds |-> <<>>]
  /\ runs = [r \in RunIds |-> [pc |-> "idle"]]

InitStore ==
  /\ config = DefaultConfig
  /\ NoObservers
  /\ NotStarted
  /\ now = 0
  /\ entries = <<>>
  /\ entriesByBatch = [b \in BatchIds |-> <<>>]
  /\ entriesByType = [ty \in AllTypes |-> <<>>]
  /\ rows = <<>>
  /\ savedIds = {}
  /\ resaves = 0
  /\ last = NoOp
  /\ side = SideInit

\* createStorageAdapter builds the in-memory adapter with the default capacity
Init ==
  /\ driver \in Drivers
  /\ maxEntries = DefaultMaxEntries
  /\ InitStore

SetMem(st) ==
  /\ entries' = st.entries
  /\ entriesByBatch' = st.byBatch
  /\ entriesByType' = st.byType

\* last.prev keeps what find(e.id) returned before the save
\* storage.save(e) on the adapter in use
StoreSave(e) ==
  /\ IF driver = "memory"
     THEN SetMem(MemorySave(mem, maxEntries, e)) /\ UNCHANGED rows
     ELSE /\ rows' = SQLSave(driver, rows, e)
          /\ UNCHANGED <<entries, entriesByBatch, entriesByType>>
  /\ savedIds' = savedIds \cup {e.id}
  /\ resaves' = IF find(e.id) = Null THEN resaves ELSE resaves + 1

Save(e) ==
  /\ StoreSave(e)
  /\ last' = [op |-> "save", arg |-> e, prev |-> find(e.id), res |-> Undef]
  /\ UNCHANGED <<driver, maxEntries, side, scopeVars>>

SaveBatch(es) ==
  /\ IF driver = "memory"
     THEN SetMem(MemorySaveBatch(mem, maxEntries, es)) /\ UNCHANGED rows
     ELSE /\ rows' = SQLSaveBatch(driver, rows, es)
          /\ UNCHANGED <<entries, entriesByBatch, entriesByType>>
  /\ savedIds' = savedIds \cup {es[k].id : k \in 1..Len(es)}
  /\ resaves' = resaves + Cardinality({k \in 1..Len(es) : find(es[k].id) # Null})
  /\ last' = [op |-> "saveBatch", arg |-> es, prev |-> Undef, res |-> Undef]
  /\ UNCHANGED <<driver, maxEntries, side, scopeVars>>

Find(i) ==
  /\ last' = [op |-> "find", arg |-> i, prev |-> Undef, res |-> find(i)]
  /\ UNCHANGED <<driver, maxEntries, entries, entriesByBatch, entriesByType,
                 rows, savedIds, resaves, side, scopeVars>>

List(o) ==
  /\ IF driver = "memory"
     THEN last' = [op |-> "list", arg |-> o, prev |-> Undef, res |-> MemoryList(mem, o)]
     ELSE \E ordered \in OrderByCreatedAtDesc(SQLSelected(driver, rows, o)) :
            last' = [op |-> "list", arg |-> o, prev |-> Undef,
                     res |-> SQLList(driver, rows, o, ordered)]
  /\ UNCHANGED <<driver, maxEntries, entries, entriesByBatch, entriesByType,
                 rows, savedIds, resaves, side, scopeVars>>

\* last.prev keeps the entries held before the prune
Prune(c) ==
  /\ IF driver = "memory"
     THEN LET r == MemoryPrune(mem, entries, c)
          IN  /\ SetMem(r.st)
              /\ last' = [op |-> "prune", arg |-> c, prev |-> Stored, res |-> r.pruned]
              /\ UNCHANGED rows
     ELSE LET r == SQLPrune(driver, rows, c)
          IN  /\ rows' = r.rows
              /\ last' = [op |-> "prune", arg |-> c, prev |-> Stored, res |-> r.pruned]
              /\ UNCHANGED <<entries, entriesByBatch, entriesByType>>
  /\ UNCHANGED <<driver, maxEntries, savedIds, resaves, side, scopeVars>>

Clear ==
  /\ IF driver = "memory"
     THEN SetMem(MemoryClear(mem)) /\ UNCHANGED rows
     ELSE /\ rows' = SQLClear(rows)
          /\ UNCHANGED <<entries, entriesByBatch, entriesByType>>
  /\ last' = [op |-> "clear", arg |-> Undef, prev |-> Stored, res |-> Undef]
  /\ UNCHANGED <<driver, maxEntries, savedIds, resaves, side, scopeVars>>

FindByBatch(b) ==
  /\ IF driver = "memory"
     THEN last' = [op |-> "findByBatch", arg |-> b, prev |-> Undef,
                   res |-> MemoryFindByBatch(mem, b)]
     ELSE \E ordered \in OrderByCreatedAtAsc(SQLBatchRows(rows, b)) :
            last' = [op |-> "findByBatch", arg |-> b, prev |-> Undef,
                     res |-> SQLFindByBatch(ordered)]
  /\ UNCHANGED <<driver, maxEntries, entries, entriesByBatch, entriesByType,
                 rows, savedIds, resaves, side, scopeVars>>

(***************************************************************************)
(* MemoryStorage.saveBatch as the event loop runs it: the call saves the   *)
(* first entry and yields at its await; each resumption saves the next     *)
(* entry.  Other calls run between two resumptions.                        *)
(***************************************************************************)
SaveBatchCall(es) ==
  /\ StoreSave(es[1])
  /\ batchLeft' = Tail(es)
  /\ last' = [op |-> "saveBatchCall", arg |-> es, prev |-> Stored, res |-> Undef]
  /\ UNCHANGED <<driver, maxEntries, side, config, clients, readyState, sent,
                 lifeVars, contextVars, hookVars, jobVars>>

SaveBatchResume ==
  /\ StoreSave(Head(batchLeft))
  /\ batchLeft' = Tail(batchLeft)
  /\ last' = [op |-> "saveBatchResume", arg |-> Head(batchLeft), prev |-> Stored,
              res |-> Undef]
  /\ UNCHANGED <<driver, maxEntries, side, config, clients, readyState, sent,
                 lifeVars, contextVars, hookVars, jobVars>>

\* saveBatch(es) in which the write of es[failAt] throws; last.prev keeps
\* the entries held before the call
SaveBatchFails(es, failAt) ==
  /\ IF driver = "memory"
     THEN LET r == MemorySaveBatchUntil(mem, maxEntries, es, 1, failAt)
          IN  /\ SetMem(r.st)
              /\ last' = [op |-> "saveBatchFails", arg |-> [entries |-> es, failAt |-> failAt],
                          prev |-> Stored, res |-> [threw |-> r.threw, leased |-> 0]]
              /\ UNCHANGED rows
     ELSE LET r == SQLSaveBatchTx(driver, rows, es, failAt)
          IN  /\ rows' = r.rows
              /\ last' = [op |-> "saveBatchFails", arg |-> [entries |-> es, failAt |-> failAt],
                          prev |-> Stored, res |-> [threw |-> r.threw, leased |-> r.leased]]
              /\ UNCHANGED <<entries, entriesByBatch, entriesByType>>
  /\ savedIds' = savedIds \cup (IF driver = "memory"
                                THEN {es[k].id : k \in 1..(failAt - 1)} ELSE {})
  /\ resaves' = resaves + (IF driver = "memory"
                           THEN Cardinality({k \in 1..(failAt - 1) : find(es[k].id) # Null})
                           ELSE 0)
  /\ UNCHANGED <<driver, maxEntries, side, scopeVars>>

\* what stats() returns in the current state
stats == IF driver = "memory" THEN MemoryStats(mem) ELSE SQLStats(driver, rows)

Stats ==
  /\ last' = [op |-> "stats", arg |-> Undef, prev |-> Undef, res |-> stats]
  /\ UNCHANGED <<driver, maxEntries, entries, entriesByBatch, entriesByType,
                 rows, savedIds, resaves, side, scopeVars>>

\* createStorageAdapter(d, options): the adapter in use is the one returned;
\* there is none when the call throws
Create(d, options) ==
  LET r == createStorageAdapter(d, options)
  IN  /\ driver' = IF r.threw THEN "none" ELSE r.driver
      /\ last' = [op |-> "create", arg |-> [driver |-> d, options |-> options],
                  prev |-> Undef, res |-> r]
      /\ UNCHANGED <<maxEntries, entries, entriesByBatch, entriesByType, rows,
                     savedIds, resaves, side, scopeVars>>

\* the promise of a storage call that returns v unless it fails
StorageCall(req, v) == IF req.fails THEN Rejected("storage failed") ELSE Fulfilled(v)

\* ApiHandler.handle(req).  cutoff is Date.now() - hours * 60 * 60 * 1000 of
\* a prune request.  last.prev keeps the options handed to storage.list,
\* last.res the outcome of the promise handle returns.
Handle(req, cutoff) ==
  LET route == Route(req)
      options == listEntriesOptions(req.query)
      writes == ~req.fails /\ route \in {"clearEntries", "pruneEntries"}
      done(passed, promise) ==
        last' = [op |-> "handle", arg |-> req, prev |-> passed, res |-> promise]
  IN  /\ route = "listEntries" => (driver = "memory" \/ SafePaging(options))
      /\ CASE route = "listEntries" ->
                IF driver = "memory"
                THEN done(options, ReturnFromTry(listEntries(
                            StorageCall(req, MemoryListJS(mem, options)))))
                ELSE \E ordered \in OrderByCreatedAtDesc(SQLSelected(driver, rows, options)) :
                        done(options, ReturnFromTry(listEntries(
                               StorageCall(req, SQLList(driver, rows, options, ordered)))))
           [] route = "getEntry" ->
                done(Undef, ReturnFromTry(getEntry(StorageCall(req, find(req.path[3])))))
           [] route = "getBatch" ->
                IF driver = "memory"
                THEN done(Undef, ReturnFromTry(getBatch(req.path[3],
                            StorageCall(req, MemoryFindByBatch(mem, req.path[3])))))
                ELSE \E ordered \in OrderByCreatedAtAsc(SQLBatchRows(rows, req.path[3])) :
                        done(Undef, ReturnFromTry(getBatch(req.path[3],
                               StorageCall(req, SQLFindByBatch(ordered)))))
           [] route = "getStats" ->
                done(Undef, ReturnFromTry(getStats(StorageCall(req, stats))))
           [] route = "clearEntries" ->
                done(Undef, ReturnFromTry(clearEntries(StorageCall(req, Undef))))
           [] route = "pruneEntries" ->
                done(Undef, ReturnFromTry(pruneEntries(StorageCall(req,
                       IF driver = "memory" THEN MemoryPrune(mem, entries, cutoff).pruned
                       ELSE SQLPrune(driver, rows, cutoff).pruned))))
           [] OTHER -> done(Undef, NotFound)
      /\ IF writes /\ driver = "memory"
         THEN SetMem(IF route = "clearEntries" THEN MemoryClear(mem)
                     ELSE MemoryPrune(mem, entries, cutoff).st)
         ELSE UNCHANGED <<entries, entriesByBatch, entriesByType>>
      /\ IF writes /\ driver # "memory"
         THEN rows' = (IF route = "clearEntries" THEN SQLClear(rows)
                       ELSE SQLPrune(driver, rows, cutoff).rows)
         ELSE UNCHANGED rows
      /\ UNCHANGED <<driver, maxEntries, savedIds, resaves, side, scopeVars>>

\* a configured authorization callback applied to a request: "flag" is
\* (req) => req.authorized === true, "never" is () => false
CallAuthorization(callback, req) ==
  IF callback = "flag" THEN req.authorized ELSE FALSE

checkAuthorizationAlways(cfg, req) == TRUE

\* NodeScope.checkAuthorization(req)
checkAuthorization(cfg, req) ==
  IF cfg.authorization = Undef THEN TRUE
  ELSE CallAuthorization(Val(cfg.authorization), req)

\* the API route an adapter mounts: 403 unless checkAuthorization yields
\* true, and only then nodescope.api.handle.  last.prev keeps the entries
\* held before a refused request.
ApiRoute(req, cutoff) ==
  IF ~checkAuthorization(config, req)
  THEN /\ last' = [op |-> "apiRoute", arg |-> req, prev |-> Stored,
                   res |-> [status |-> 403, body |-> [error |-> "Unauthorized"]]]
       /\ UNCHANGED <<driver, maxEntries, entries, entriesByBatch, entriesByType,
                      rows, savedIds, resaves, side, scopeVars>>
  ELSE Handle(req, cutoff)

\* recordEntry that broadcasts before it awaits the save: the observers
\* are sent the entry whether the save succeeds or not
RecordEntryBroadcastsFirst(e, failing, saveThrows) ==
  LET r == recordEntry(config, e)
      saved == r.save /\ ~saveThrows
      b == broadcast(clients, clients, sent, EntryMessage(r.entry), failing)
  IN  /\ last' = [op |-> "recordEntry", arg |-> e, prev |-> find(e.id),
                  res |-> [entry |-> r.entry, saved |-> saved,
                           threw |-> r.save /\ saveThrows,
                           clients |-> clients, sent |-> sent,
                           failing |-> failing]]
      /\ IF saved
         THEN StoreSave(r.entry)
         ELSE UNCHANGED <<entries, entriesByBatch, entriesByType, rows,
                          savedIds, resaves>>
      /\ IF r.save /\ config.realtime
         THEN clients' = b.clients /\ sent' = b.sent
         ELSE UNCHANGED <<clients, sent>>
      /\ UNCHANGED <<driver, maxEntries, side, config, readyState, lifeVars,
                     contextVars, processVars>>

\* NodeScope.recordEntry(e); saveThrows tells whether storage.save rejects
\* and failing is the set of observers whose send throws during the
\* broadcast.  last.res keeps the entry object as the call leaves it,
\* whether it was saved, whether the call rejected, and the registry and
\* the data sent as they were before the call.
RecordEntry(e, failing, saveThrows) ==
  LET r == recordEntry(config, e)
      saved == r.save /\ ~saveThrows
      b == broadcast(clients, clients, sent, EntryMessage(r.entry), failing)
      done == [op |-> "recordEntry", arg |-> e, prev |-> find(e.id),
               res |-> [entry |-> r.entry, saved |-> saved,
                        threw |-> r.save /\ saveThrows,
                        clients |-> clients, sent |-> sent,
                        failing |-> failing]]
  IN  /\ last' = done
      /\ IF saved
         THEN StoreSave(r.entry)
         ELSE UNCHANGED <<entries, entriesByBatch, entriesByType, rows,
                          savedIds, resaves>>
      /\ IF saved /\ config.realtime
         THEN clients' = b.clients /\ sent' = b.sent
         ELSE UNCHANGED <<clients, sent>>
      /\ UNCHANGED <<driver, maxEntries, side, config, readyState, lifeVars,
                     contextVars, processVars>>

\* RealTimeServer.clientCount
clientCount == Len(clients)

\* sendTo(ws, message): the message is sent if the socket is open
sendTo(log, ws, message) ==
  IF readyState[ws] = 1 THEN [log EXCEPT ![ws] = Append(@, message)] ELSE log

\* handleConnection that builds the welcome message before it registers
HandleConnectionCountsBefore(ws) ==
  /\ clients' = SetAdd(clients, ws)
  /\ sent' = sendTo(sent, ws, ConnectedMessage(Len(clients)))
  /\ last' = [op |-> "handleConnection", arg |-> [ws |-> ws], prev |-> Undef,
              res |-> [clients |-> clients, sent |-> sent]]
  /\ UNCHANGED <<driver, maxEntries, entries, entriesByBatch, entriesByType,
                 rows, savedIds, resaves, side, config, readyState,
                 lifeVars, contextVars, processVars>>

\* RealTimeServer.handleConnection(ws): register, then the welcome message
\* if the socket is open.  last.res keeps the registry and the data sent
\* as they were before the call.
HandleConnection(ws) ==
  /\ clients' = SetAdd(clients, ws)
  /\ sent' = sendTo(sent, ws, ConnectedMessage(Len(SetAdd(clients, ws))))
  /\ last' = [op |-> "handleConnection", arg |-> [ws |-> ws], prev |-> Undef,
              res |-> [clients |-> clients, sent |-> sent]]
  /\ UNCHANGED <<driver, maxEntries, entries, entriesByBatch, entriesByType,
                 rows, savedIds, resaves, side, config, readyState,
                 lifeVars, contextVars, processVars>>

\* RealTimeServer.handleDisconnection(ws)
HandleDisconnection(ws) ==
  /\ clients' = Without(clients, ws)
  /\ last' = [op |-> "handleDisconnection", arg |-> [ws |-> ws], prev |-> Undef,
              res |-> [clients |-> clients, sent |-> sent]]
  /\ UNCHANGED <<driver, maxEntries, entries, entriesByBatch, entriesByType,
                 rows, savedIds, resaves, side, config, readyState, sent,
                 lifeVars, contextVars, processVars>>

\* an observer's socket leaves the OPEN state (3 is CLOSED)
SocketCloses(ws) ==
  /\ readyState[ws] = 1
  /\ readyState' = [readyState EXCEPT ![ws] = 3]
  /\ last' = [op |-> "socketCloses", arg |-> [ws |-> ws], prev |-> Undef, res |-> Undef]
  /\ UNCHANGED <<driver, maxEntries, entries, entriesByBatch, entriesByType,
                 rows, savedIds, resaves, side, config, clients, sent,
                 lifeVars, contextVars, processVars>>

(***************************************************************************)
(* The life cycle of the orchestrator: initialize with its two awaits,     *)
(* close, the heartbeat of the real-time server and the two interval       *)
(* timers.  A timer or a pair of process listeners is a handle numbered in *)
(* the order of creation; timers holds the intervals that are active.      *)
(***************************************************************************)
\* the argument of a call without arguments
NoArg == [none |-> TRUE]

storeVars == <<driver, maxEntries, entries, entriesByBatch, entriesByType,
               rows, savedIds, resaves, side>>

observerVars == <<clients, readyState, sent>>

\* the timers, listeners and cleanup functions as one value
life ==
  [heartbeatInterval |-> heartbeatInterval, timers |-> timers,
   handles |-> handles, cleanupFns |-> cleanupFns, listeners |-> listeners]

SetLife(st) ==
  /\ heartbeatInterval' = st.heartbeatInterval
  /\ timers' = st.timers
  /\ handles' = st.handles
  /\ cleanupFns' = st.cleanupFns
  /\ listeners' = st.listeners

\* setInterval(callback, ms) and clearInterval(timer)
SetInterval(st, kind) ==
  [st EXCEPT !.handles = @ + 1,
             !.timers = @ \cup {[id |-> st.handles + 1, kind |-> kind]}]

ClearInterval(st, id) == [st EXCEPT !.timers = {t \in @ : t.id # id}]

TimersOf(kind) == {t \in timers : t.kind = kind}

\* JSON.stringify({ type: 'ping', timestamp: Date.now() })
PingMessage(t) == [type |-> "ping", timestamp |-> t]

\* startHeartbeat without the test of heartbeatInterval
startHeartbeatUnguarded(st) ==
  LET n == SetInterval(st, "heartbeat")
  IN  [n EXCEPT !.heartbeatInterval = Some(n.handles)]

\* RealTimeServer.startHeartbeat
startHeartbeat(st) ==
  IF st.heartbeatInterval # Undef THEN st
  ELSE LET n == SetInterval(st, "heartbeat")
       IN  [n EXCEPT !.heartbeatInterval = Some(n.handles)]

\* RealTimeServer.stopHeartbeat
stopHeartbeat(st) ==
  IF st.heartbeatInterval # Undef
  THEN [ClearInterval(st, Val(st.heartbeatInterval)) EXCEPT !.heartbeatInterval = Undef]
  ELSE st

\* setupGlobalErrorHandlers: the two process listeners and the function
\* that removes them
setupGlobalErrorHandlers(st) ==
  [st EXCEPT !.handles = @ + 1,
             !.listeners = @ \cup {st.handles + 1},
             !.cleanupFns = Append(@, [kind |-> "removeListener", id |-> st.handles + 1])]

\* the prune interval of initialize and the function that clears it
setPruneInterval(st) ==
  LET n == SetInterval(st, "prune")
  IN  [n EXCEPT !.cleanupFns = Append(@, [kind |-> "clearInterval", id |-> n.handles])]

\* initialize after storage.initialize() has resolved: the error handlers,
\* the heartbeat and the prune interval
initializeRest(cfg, st) ==
  LET a == IF cfg.watchers.exception THEN setupGlobalErrorHandlers(st) ELSE st
      b == IF cfg.realtime THEN startHeartbeat(a) ELSE a
  IN  IF cfg.pruneAfterHours # 0 /\ cfg.pruneAfterHours > 0
      THEN setPruneInterval(b)
      ELSE b

\* one cleanup function of cleanupFns
RunCleanup(st, fn) ==
  IF fn.kind = "removeListener"
  THEN [st EXCEPT !.listeners = @ \ {fn.id}]
  ELSE ClearInterval(st, fn.id)

RECURSIVE RunCleanups(_, _)
RunCleanups(st, fns) ==
  IF fns = <<>> THEN st ELSE RunCleanups(RunCleanup(st, Head(fns)), Tail(fns))

\* close that forgets the cleanup functions without calling them
closeWithoutCleanup(st) == [stopHeartbeat(st) EXCEPT !.cleanupFns = <<>>]

\* NodeScope.close up to storage.close()
close(st) ==
  [RunCleanups(stopHeartbeat(st), st.cleanupFns) EXCEPT !.cleanupFns = <<>>]

\* what an initialize call may change, as one value
Started ==
  [initialized |-> initialized, storage |-> storage, adapters |-> adapters,
   life |-> life]

\* initialize without the test of the initialized flag
InitializeCallUnguarded(c) ==
  /\ calls[c].pc = "idle"
  /\ adapters' = adapters + 1
  /\ calls' = [calls EXCEPT ![c] = [pc |-> "createStorageAdapter",
                                     adapter |-> adapters + 1]]
  /\ last' = [op |-> "initialize", arg |-> [call |-> c], prev |-> Undef,
              res |-> [before |-> Started]]
  /\ UNCHANGED <<storeVars, config, observerVars, contextVars, processVars, initialized,
                 storage, closedAdapters, heartbeatInterval, timers, handles,
                 cleanupFns, listeners, now>>

\* NodeScope.initialize() up to its first await: a call made when the flag
\* is set returns; otherwise createStorageAdapter builds an adapter
InitializeCall(c) ==
  /\ calls[c].pc = "idle"
  /\ IF initialized
     THEN UNCHANGED <<adapters, calls>>
     ELSE /\ adapters' = adapters + 1
          /\ calls' = [calls EXCEPT ![c] = [pc |-> "createStorageAdapter",
                                             adapter |-> adapters + 1]]
  /\ last' = [op |-> "initialize", arg |-> [call |-> c], prev |-> Undef,
              res |-> [before |-> Started]]
  /\ UNCHANGED <<storeVars, config, observerVars, contextVars, processVars, initialized,
                 storage, closedAdapters, heartbeatInterval, timers, handles,
                 cleanupFns, listeners, now>>

\* this.storage = (the adapter awaited); storage.initialize() is called.
\* A new MemoryStorage is empty; a SQL adapter opens the same database.
InitializeAdapterCreated(c) ==
  /\ calls[c].pc = "createStorageAdapter"
  /\ storage' = Some(calls[c].adapter)
  /\ calls' = [calls EXCEPT ![c].pc = "storage.initialize"]
  /\ IF driver = "memory"
     THEN SetMem(SideInit.memory)
     ELSE UNCHANGED <<entries, entriesByBatch, entriesByType>>
  /\ last' = [op |-> "initializeAdapterCreated", arg |-> [call |-> c],
              prev |-> Undef, res |-> [before |-> Started]]
  /\ UNCHANGED <<driver, maxEntries, rows, savedIds, resaves, side, config,
                 observerVars, contextVars, processVars, initialized, adapters,
                 closedAdapters, heartbeatInterval, timers, handles,
                 cleanupFns, listeners, now>>

\* the rest of initialize, after storage.initialize() has resolved
InitializeFinish(c) ==
  /\ calls[c].pc = "storage.initialize"
  /\ SetLife(initializeRest(config, life))
  /\ initialized' = TRUE
  /\ calls' = [calls EXCEPT ![c] = [pc |-> "idle", adapter |-> 0]]
  /\ last' = [op |-> "initializeFinish", arg |-> [call |-> c], prev |-> Undef,
              res |-> [before |-> Started]]
  /\ UNCHANGED <<storeVars, config, observerVars, contextVars, processVars, storage,
                 adapters, closedAdapters, now>>

\* NodeScope.close()
Close ==
  /\ SetLife(close(life))
  /\ closedAdapters' = IF storage # Undef
                       THEN closedAdapters \cup {Val(storage)}
                       ELSE closedAdapters
  /\ last' = [op |-> "close", arg |-> NoArg, prev |-> Undef,
              res |-> [before |-> Started]]
  /\ UNCHANGED <<storeVars, config, observerVars, contextVars, processVars, initialized,
                 storage, adapters, calls, now>>

\* realtime.startHeartbeat(), as attachWebSocket calls it
StartHeartbeat ==
  /\ SetLife(startHeartbeat(life))
  /\ last' = [op |-> "startHeartbeat", arg |-> NoArg, prev |-> Undef,
              res |-> [before |-> Started]]
  /\ UNCHANGED <<storeVars, config, observerVars, contextVars, processVars, initialized,
                 storage, adapters, closedAdapters, calls, now>>

\* realtime.stopHeartbeat()
StopHeartbeat ==
  /\ SetLife(stopHeartbeat(life))
  /\ last' = [op |-> "stopHeartbeat", arg |-> NoArg, prev |-> Undef,
              res |-> [before |-> Started]]
  /\ UNCHANGED <<storeVars, config, observerVars, contextVars, processVars, initialized,
                 storage, adapters, closedAdapters, calls, now>>

\* the callback of the heartbeat interval t: a ping to every observer
HeartbeatTick(t, failing) ==
  LET b == broadcast(clients, clients, sent, PingMessage(now), failing)
  IN  /\ t \in TimersOf("heartbeat")
      /\ clients' = b.clients
      /\ sent' = b.sent
      /\ last' = [op |-> "heartbeatTick", arg |-> [timer |-> t.id], prev |-> Undef,
                  res |-> [clients |-> clients, sent |-> sent, failing |-> failing]]
      /\ UNCHANGED <<storeVars, config, readyState, lifeVars, contextVars, processVars>>

\* storage.prune(c) on the adapter in use
StorePrune(c) ==
  IF driver = "memory"
  THEN SetMem(MemoryPrune(mem, entries, c).st) /\ UNCHANGED rows
  ELSE /\ rows' = SQLPrune(driver, rows, c).rows
       /\ UNCHANGED <<entries, entriesByBatch, entriesByType>>

\* a cutoff that leaves the horizon out
beforeDateNow(cfg, clock) == clock

\* new Date(Date.now() - pruneAfterHours * 60 * 60 * 1000), in hours
beforeDate(cfg, clock) == clock - cfg.pruneAfterHours

\* the callback of the prune interval t
PruneTick(t) ==
  /\ t \in TimersOf("prune")
  /\ StorePrune(beforeDate(config, now))
  /\ last' = [op |-> "pruneTick", arg |-> [timer |-> t.id], prev |-> Undef,
              res |-> [cutoff |-> beforeDate(config, now), before |-> Stored]]
  /\ UNCHANGED <<driver, maxEntries, savedIds, resaves, side, scopeVars>>

\* an hour passes
AdvanceClock ==
  /\ now' = now + 1
  /\ last' = [op |-> "advanceClock", arg |-> NoArg, prev |-> Undef,
              res |-> [before |-> Started]]
  /\ UNCHANGED <<storeVars, config, observerVars, contextVars, processVars, initialized,
                 storage, adapters, closedAdapters, heartbeatInterval, timers,
                 handles, cleanupFns, listeners, calls>>

(***************************************************************************)
(* Request contexts.  A unit of work is one run of the middleware: it      *)
(* calls createContext when the request arrives and records the request    *)
(* entry when the response finishes.  nanoid() gives an id no earlier call *)
(* gave: the nanoids-th id is the number nanoids.                          *)
(***************************************************************************)
\* createRequestContext(): { batchId: nanoid(), startTime: performance.now() }
createRequestContext(n, clock) == [batchId |-> n + 1, startTime |-> clock]

\* the batchId accessor of NodeScope
batchId == currentBatchId

\* unit u has called createContext and its response has not finished
InFlight(u) == contexts[u] # Undef /\ find(u) = Null

\* NodeScope.createContext(), called by unit u
CreateContext(u) ==
  LET ctx == createRequestContext(nanoids, now)
  IN  /\ nanoids' = nanoids + 1
      /\ currentBatchId' = Some(ctx.batchId)
      /\ contexts' = [contexts EXCEPT ![u] = Some(ctx)]
      /\ last' = [op |-> "createContext", arg |-> [unit |-> u], prev |-> Undef,
                  res |-> [ctx |-> ctx, before |-> batchId]]
      /\ UNCHANGED <<storeVars, config, observerVars, lifeVars, processVars>>

\* the entry RequestWatcher.record and createEntry build for unit u when
\* its response finishes: batchId and the duration from the unit's context
RequestEntry(u) ==
  [Entry(u, Val(contexts[u]).batchId, "request", now, 1)
     EXCEPT !.duration = Some(now - Val(contexts[u]).startTime)]

\* res.on('finish') of unit u: record the request entry, then recordEntry
FinishUnit(u) ==
  /\ contexts[u] # Undef
  /\ RecordEntry(RequestEntry(u), {}, FALSE)

(***************************************************************************)
(* Process-level failures and the global hook.  A failure that reaches the *)
(* process is an 'uncaughtException' or an 'unhandledRejection' event.     *)
(* With no listener the process prints the error and exits; with a         *)
(* listener the listener runs and the process goes on.  The listeners here *)
(* are the pair setupGlobalErrorHandlers installs.                         *)
(***************************************************************************)
FailureKinds == {"uncaughtException", "unhandledRejection"}

\* watcher.record({ error, context: { uncaught: true, type } }) of the
\* n-th capture: the tags are 'error' and 'class:<name>', the context is
\* kept in the content; the nanoid of the batch is folded onto batch 1
ExceptionRecord(n, kind, clock) ==
  [Entry(n, 1, "exception", clock, 1)
     EXCEPT !.content = [message |-> "Err", context |-> Some(kind)],
            !.tags = <<"error", "class:Error">>]

\* a failure of the application reaches the process
Fails(kind) ==
  /\ ~exited
  /\ failures' = Append(failures, [kind |-> kind, origin |-> "application"])
  /\ last' = [op |-> "fails", arg |-> [kind |-> kind], prev |-> Undef, res |-> NoArg]
  /\ UNCHANGED <<storeVars, config, observerVars, lifeVars, contextVars,
                 batchLeft, exited, hookCalls, jobVars>>

\* the process emits the event of the oldest pending failure.  With the
\* hook installed, handleUncaughtException / handleUnhandledRejection
\* records the entry and calls onEntry, which starts recordEntry and drops
\* its promise: if storage.save rejects (saveThrows), that rejection is
\* itself unhandled and reaches the process as a new failure.
Dispatch(saveThrows) ==
  LET f == Head(failures)
      e == ExceptionRecord(hookCalls + 1, f.kind, now)
      r == recordEntry(config, e)
      saved == r.save /\ ~saveThrows
      b == broadcast(clients, clients, sent, EntryMessage(r.entry), {})
  IN  /\ ~exited
      /\ failures # <<>>
      /\ IF listeners = {}
         THEN /\ exited' = TRUE
              /\ failures' = Tail(failures)
              /\ last' = [op |-> "dispatch", arg |-> f, prev |-> Undef,
                          res |-> [hooked |-> FALSE]]
              /\ UNCHANGED <<entries, entriesByBatch, entriesByType, rows,
                             savedIds, resaves, clients, sent, hookCalls>>
         ELSE /\ hookCalls' = hookCalls + 1
              /\ failures' = Tail(failures) \o
                    (IF r.save /\ saveThrows
                     THEN <<[kind |-> "unhandledRejection", origin |-> "hook"]>>
                     ELSE <<>>)
              /\ last' = [op |-> "dispatch", arg |-> f, prev |-> Undef,
                          res |-> [hooked |-> TRUE, entry |-> r.entry,
                                   saved |-> saved]]
              /\ IF saved
                 THEN StoreSave(r.entry)
                 ELSE UNCHANGED <<entries, entriesByBatch, entriesByType, rows,
                                  savedIds, resaves>>
              /\ IF saved /\ config.realtime
                 THEN clients' = b.clients /\ sent' = b.sent
                 ELSE UNCHANGED <<clients, sent>>
              /\ UNCHANGED exited
      /\ UNCHANGED <<driver, maxEntries, side, config, readyState, lifeVars,
                     contextVars, batchLeft, jobVars>>

(***************************************************************************)
(* The job tracker.  createJobTracker closes over a counter `attempts`;    *)
(* tracker 0 is one the application drives itself, tracker r is the one    *)
(* run r of a wrapped processor creates.  `recorded` holds, per tracker,   *)
(* the sequence of its calls of watcher.record.                            *)
(***************************************************************************)
\* the values a processor may reject with: an Error or any other value
Rejections == [isError : BOOLEAN, message : {"boom"}]

\* the argument of this.record(...) of a tracker
JobRecord(t, status, n, error) ==
  [tracker |-> t, status |-> status, attempts |-> n, error |-> error]

\* fail: error instanceof Error ? error.message : error
\* (wrapJobProcessor passes an Error as it is and String(error) otherwise)
FailMessage(error) == Some(error.message)

startRecordsFirst(t) ==
  /\ attempts' = [attempts EXCEPT ![t] = @ + 1]
  /\ recorded' = [recorded EXCEPT
                    ![t] = Append(@, JobRecord(t, "processing", attempts[t], Undef))]

\* start: attempts++ and then the record with status 'processing'
start(t) ==
  /\ attempts' = [attempts EXCEPT ![t] = @ + 1]
  /\ recorded' = [recorded EXCEPT
                    ![t] = Append(@, JobRecord(t, "processing", attempts'[t], Undef))]

\* complete: the record with status 'completed' and the counter as it is
complete(t) ==
  /\ recorded' = [recorded EXCEPT
                    ![t] = Append(@, JobRecord(t, "completed", attempts[t], Undef))]
  /\ UNCHANGED attempts

\* fail: the record with status 'failed' and the counter as it is
fail(t, error) ==
  /\ recorded' = [recorded EXCEPT
                    ![t] = Append(@, JobRecord(t, "failed", attempts[t],
                                               FailMessage(error)))]
  /\ UNCHANGED attempts

jobFrame ==
  UNCHANGED <<storeVars, last, config, observerVars, lifeVars, contextVars,
              batchLeft, hookVars>>

\* the application calls a method of its own tracker
TrackerStart == start(0) /\ UNCHANGED runs /\ jobFrame
TrackerComplete == complete(0) /\ UNCHANGED runs /\ jobFrame
TrackerFail(error) == fail(0, error) /\ UNCHANGED runs /\ jobFrame

\* the wrapped processor is invoked: a new tracker, tracker.start(), and
\* the call of the processor, at whose await the run is suspended
WrappedCall(r) ==
  /\ runs[r].pc = "idle"
  /\ start(r)
  /\ runs' = [runs EXCEPT ![r] = [pc |-> "awaiting"]]
  /\ jobFrame

\* the processor resolves: tracker.complete(duration); return result
ProcessorResolves(r, result) ==
  /\ runs[r].pc = "awaiting"
  /\ complete(r)
  /\ runs' = [runs EXCEPT ![r] = [pc |-> "resolved", result |-> result,
                                   returned |-> result]]
  /\ jobFrame

\* the processor rejects (or throws): tracker.fail(...); throw error
ProcessorRejects(r, error) ==
  /\ runs[r].pc = "awaiting"
  /\ fail(r, error)
  /\ runs' = [runs EXCEPT ![r] = [pc |-> "rejected", error |-> error,
                                   thrown |-> error]]
  /\ jobFrame

(***************************************************************************)
(* The watchers' record: what a watcher stores of the data it is handed.   *)
(* A value of unknown type is one of four kinds: "small" and "large"       *)
(* serialize to 1 KB and to 65 KB of text, JSON.stringify throws on        *)
(* "circular" and returns undefined for "function".  Fields a watcher      *)
(* copies unchanged (url, query, ip, key, operation) are left out.         *)
(***************************************************************************)
ValueKinds == {"small", "large", "circular", "function"}

Value(kind) == Some([kind |-> kind])

Values == {Undef, Null} \cup {Value(k) : k \in ValueKinds}

Returned(v) == [threw |-> FALSE, value |-> v]

JSONStringifyValue(v) ==
  CASE v.kind = "circular" -> Threw("TypeError: Converting circular structure to JSON")
    [] v.kind = "function" -> Returned(Undef)
    [] v.kind = "large"    -> Returned(Some(66560))
    [] OTHER               -> Returned(Some(1024))

byteLength(text) ==
  IF text = Undef
    THEN Threw("TypeError: The \"string\" argument must be of type string")
    ELSE Returned(Val(text))

\* serialized.length of the text, a TypeError on undefined
length(text) ==
  IF text = Undef
    THEN Threw("TypeError: Cannot read properties of undefined")
    ELSE Returned(Val(text))

\* Math.round(bytes / 1024)
RoundKB(bytes) == (2 * bytes + 1024) \div 2048

HeaderNames == {"authorization", "Authorization", "x-secret", "X-Secret", "x-trace"}

HeaderValues == {"s1", "s2"}

toLowerCase(s) ==
  CASE s = "Authorization" -> "authorization"
    [] s = "X-Secret"      -> "x-secret"
    [] OTHER               -> s

Hidden == "[HIDDEN]"

Unserializable == Some([sentinel |-> "[UNSERIALIZABLE]"])

DEFAULT_SIZE_LIMIT == 64

DEFAULT_HIDE_HEADERS == <<"authorization", "cookie", "set-cookie">>

DefaultIgnorePaths == << <<"_nodescope">>, <<"favicon.ico">> >>

OrDefault(option, default) == IF option = Undef THEN default ELSE Val(option)

\* a path is the sequence of its segments
startsWith(path, prefix) ==
  /\ Len(prefix) <= Len(path)
  /\ SubSeq(path, 1, Len(prefix)) = prefix

RequestWatcher(options) ==
  [sizeLimit       |-> OrDefault(options.sizeLimit, DEFAULT_SIZE_LIMIT),
   ignorePaths     |-> OrDefault(options.ignorePaths, DefaultIgnorePaths),
   captureBody     |-> OrDefault(options.captureBody, TRUE),
   captureResponse |-> OrDefault(options.captureResponse, TRUE),
   hideHeaders     |-> OrDefault(options.hideHeaders, DEFAULT_HIDE_HEADERS)]

filterHeaders(hideHeaders, headers) ==
  [i \in 1..Len(headers) |->
     IF Includes(hideHeaders, toLowerCase(headers[i].name))
       THEN [headers[i] EXCEPT !.value = Hidden]
       ELSE headers[i]]

RequestTruncateBody(sizeLimit, body) ==
  IF body = Undef \/ body = Null THEN Returned(body)
  ELSE LET serialized == JSONStringifyValue(Val(body))
           bytes == IF serialized.threw THEN serialized ELSE byteLength(serialized.value)
       IN  IF bytes.threw THEN bytes
           ELSE IF bytes.value > sizeLimit * 1024
             THEN Returned(Some([sentinel |-> "[TRUNCATED]", kb |-> RoundKB(bytes.value),
                                 limit |-> sizeLimit]))
             ELSE Returned(body)

getBodySize(body) ==
  IF body = Undef \/ body = Null THEN Undef
  ELSE LET serialized == JSONStringifyValue(Val(body))
           bytes == IF serialized.threw THEN serialized ELSE byteLength(serialized.value)
       IN  IF bytes.threw THEN Undef ELSE Some(bytes.value)

RequestRecord(options, data) ==
  LET opts == RequestWatcher(options)
      requestBody == IF opts.captureBody
                       THEN RequestTruncateBody(opts.sizeLimit, data.body)
                       ELSE Returned(Undef)
      responseBody == IF opts.captureResponse
                        THEN RequestTruncateBody(opts.sizeLimit, data.response.body)
                        ELSE Returned(Undef)
  IN  IF \E i \in 1..Len(opts.ignorePaths) : startsWith(data.path, opts.ignorePaths[i])
        THEN Returned(Null)
      ELSE IF requestBody.threw THEN requestBody
      ELSE IF responseBody.threw THEN responseBody
      ELSE Returned(Some(
             [path     |-> data.path,
              headers  |-> filterHeaders(opts.hideHeaders, data.headers),
              body     |-> requestBody.value,
              response |-> [status  |-> data.response.status,
                            headers |-> filterHeaders(opts.hideHeaders, data.response.headers),
                            body    |-> responseBody.value,
                            size    |-> getBodySize(data.response.body)]]))

sensitiveHeaders == <<"authorization", "cookie", "x-api-key", "api-key">>

sanitizeHeaders(headers) ==
  [i \in 1..Len(headers) |->
     IF Includes(sensitiveHeaders, toLowerCase(headers[i].name))
       THEN [headers[i] EXCEPT !.value = Hidden]
       ELSE headers[i]]

HttpClientTruncateBody(sizeLimit, body) ==
  IF body = Undef \/ body = Null THEN body
  ELSE LET serialized == JSONStringifyValue(Val(body))
           bytes == IF serialized.threw THEN serialized ELSE byteLength(serialized.value)
       IN  IF bytes.threw THEN Unserializable
           ELSE IF bytes.value > sizeLimit * 1024
             THEN Some([sentinel |-> "[TRUNCATED]", kb |-> RoundKB(bytes.value)])
             ELSE body

HttpClientRecord(options, data) ==
  LET sizeLimit == OrDefault(options.sizeLimit, DEFAULT_SIZE_LIMIT)
  IN  Returned(Some(
        [headers  |-> sanitizeHeaders(data.headers),
         body     |-> HttpClientTruncateBody(sizeLimit, data.body),
         response |-> [status  |-> data.response.status,
                       headers |-> data.response.headers,
                       body    |-> HttpClientTruncateBody(sizeLimit, data.response.body),
                       size    |-> getBodySize(data.response.body)]]))

truncateValue(value) ==
  IF value = Undef \/ value = Null THEN value
  ELSE LET serialized == JSONStringifyValue(Val(value))
           chars == IF serialized.threw THEN serialized ELSE length(serialized.value)
       IN  IF chars.threw THEN Unserializable
           ELSE IF chars.value > 1024
             THEN Some([sentinel |-> "[TRUNCATED]", bytes |-> chars.value])
             ELSE value

CacheRecord(options, data) ==
  Returned(Some([key |-> data.key, value |-> truncateValue(data.value)]))

DEFAULT_SLOW_THRESHOLD == 100

\* sql.trim().toLowerCase() starts with one of the seven verbs
extractQueryType(sql) ==
  CASE sql = "SELECT 1"         -> Some("select")
    [] sql = "  insert into t"  -> Some("insert")
    [] OTHER                    -> Null

QueryRecordAtLeast(options, data) ==
  LET slow == data.duration >= OrDefault(options.slowThreshold, DEFAULT_SLOW_THRESHOLD)
      queryType == extractQueryType(data.sql)
  IN  Returned(Some(
        [sql      |-> data.sql,
         slow     |-> slow,
         duration |-> data.duration,
         tags     |-> (IF slow THEN <<"slow">> ELSE <<>>)
                        \o (IF queryType # Null THEN <<"query:" \o Val(queryType)>> ELSE <<>>)]))

\* content.sql and content.slow with the entry's duration and tags
QueryRecord(options, data) ==
  LET slow == data.duration > OrDefault(options.slowThreshold, DEFAULT_SLOW_THRESHOLD)
      queryType == extractQueryType(data.sql)
  IN  Returned(Some(
        [sql      |-> data.sql,
         slow     |-> slow,
         duration |-> data.duration,
         tags     |-> (IF slow THEN <<"slow">> ELSE <<>>)
                        \o (IF queryType # Null THEN <<"query:" \o Val(queryType)>> ELSE <<>>)]))

record(watcher, options, data) ==
  CASE watcher = "request"     -> RequestRecord(options, data)
    [] watcher = "http_client" -> HttpClientRecord(options, data)
    [] watcher = "query"       -> QueryRecord(options, data)
    [] OTHER                   -> CacheRecord(options, data)

\* the pending call of a watcher's record returns or throws
Record(watcher) ==
  /\ last.op = "call"
  /\ last.arg.watcher = watcher
  /\ last' = [op |-> "record", arg |-> last.arg, prev |-> Undef,
              res |-> record(watcher, last.arg.options, last.arg.data)]
  /\ UNCHANGED <<storeVars, config, observerVars, lifeVars, contextVars, processVars>>

(***************************************************************************)
(* The four adapters side by side: every write goes to each of them, every *)
(* read is answered by each of them (last.res maps a driver to its answer).*)
(***************************************************************************)
SQLDrivers == Drivers \ {"memory"}

SideSave(e) ==
  /\ side' = [d \in Drivers |->
                IF d = "memory" THEN MemorySave(side[d], maxEntries, e)
                ELSE SQLSave(d, side[d], e)]
  /\ last' = [op |-> "save", arg |-> e, prev |-> Undef, res |-> Undef]
  /\ UNCHANGED <<driver, maxEntries, entries, entriesByBatch, entriesByType,
                 rows, savedIds, resaves, scopeVars>>

SideSaveBatch(es) ==
  /\ side' = [d \in Drivers |->
                IF d = "memory" THEN MemorySaveBatch(side[d], maxEntries, es)
                ELSE SQLSaveBatch(d, side[d], es)]
  /\ last' = [op |-> "saveBatch", arg |-> es, prev |-> Undef, res |-> Undef]
  /\ UNCHANGED <<driver, maxEntries, entries, entriesByBatch, entriesByType,
                 rows, savedIds, resaves, scopeVars>>

SidePrune(c) ==
  LET r == [d \in Drivers |->
              IF d = "memory"
              THEN MemoryPrune(side[d], side[d].entries, c)
              ELSE SQLPrune(d, side[d], c)]
  IN  /\ side' = [d \in Drivers |-> IF d = "memory" THEN r[d].st ELSE r[d].rows]
      /\ last' = [op |-> "prune", arg |-> c, prev |-> Undef,
                  res |-> [d \in Drivers |-> r[d].pruned]]
      /\ UNCHANGED <<driver, maxEntries, entries, entriesByBatch, entriesByType,
                     rows, savedIds, resaves, scopeVars>>

SideClear ==
  /\ side' = [d \in Drivers |->
                IF d = "memory" THEN MemoryClear(side[d]) ELSE SQLClear(side[d])]
  /\ last' = [op |-> "clear", arg |-> Undef, prev |-> Undef, res |-> Undef]
  /\ UNCHANGED <<driver, maxEntries, entries, entriesByBatch, entriesByType,
                 rows, savedIds, resaves, scopeVars>>

SideList(o) ==
  /\ \E ordered \in [SQLDrivers -> UNION {OrderByCreatedAtDesc(SQLSelected(d, side[d], o)) :
                                            d \in SQLDrivers}] :
        /\ \A d \in SQLDrivers :
              ordered[d] \in OrderByCreatedAtDesc(SQLSelected(d, side[d], o))
        /\ last' = [op |-> "list", arg |-> o, prev |-> Undef,
                    res |-> [d \in Drivers |->
                               IF d = "memory" THEN MemoryList(side[d], o)
                               ELSE SQLList(d, side[d], o, ordered[d])]]
  /\ UNCHANGED <<driver, maxEntries, entries, entriesByBatch, entriesByType,
                 rows, savedIds, resaves, side, scopeVars>>

SideStats ==
  /\ last' = [op |-> "stats", arg |-> Undef, prev |-> Undef,
              res |-> [d \in Drivers |->
                         IF d = "memory" THEN MemoryStats(side[d])
                         ELSE SQLStats(d, side[d])]]
  /\ UNCHANGED <<driver, maxEntries, entries, entriesByBatch, entriesByType,
                 rows, savedIds, resaves, side, scopeVars>>

(***************************************************************************)
(* Inputs.                                                                 *)
(***************************************************************************)
Opt(S) == {Undef} \cup {Some(x) : x \in S}

ListOptions(types, batches, tags, befores, afters, limits, offsets) ==
  [type : types, batchId : batches, tags : tags, before : befores,
   after : afters, limit : limits, offset : offsets]

\* requests that combine the type, batchId and createdAt filters
FilterInputs ==
  ListOptions(Opt(Types), Opt(BatchIds), {Undef}, {Undef, Some(1)},
              {Undef, Some(0)}, {Undef}, {Undef})

\* requests that combine a tags filter with pagination
PageInputs ==
  ListOptions({Undef}, {Undef},
              {Undef, Some(<<>>), Some(<<"t1">>), Some(<<"t2", "t1">>)},
              {Undef}, {Undef}, Opt(0..MaxLimit), Opt(0..MaxLimit))

ListInputs == FilterInputs \cup PageInputs

\* A read leaves every adapter variable as it was, so the state after it
\* differs from the state before it only in `last`, and whatever follows a
\* read also follows the write before it: runs are explored up to a read.
AfterWrite ==
  last.op \in {"none", "save", "saveBatch", "saveBatchFails", "prune", "clear"}

\* a save reuses a stored id at most MaxResaves times in one run
SaveAllowed(e) == find(e.id) = Null \/ resaves < MaxResaves

(***************************************************************************)
(* Spec: saves (a stored id may be saved again) and finds, on the adapter  *)
(* createStorageAdapter returns for each driver.                           *)
(***************************************************************************)
Next ==
  \/ \E e \in Entries : AfterWrite /\ SaveAllowed(e) /\ Save(e)
  \/ \E i \in Ids : AfterWrite /\ Find(i)

Spec == Init /\ [][Next]_vars

(***************************************************************************)
(* SpecList: saves of new ids and list requests.                           *)
(***************************************************************************)
NextList ==
  \/ \E e \in Entries : AfterWrite /\ find(e.id) = Null /\ Save(e)
  \/ \E o \in ListInputs : AfterWrite /\ List(o)

SpecList == Init /\ [][NextList]_vars

(***************************************************************************)
(* SpecEvict: the in-memory adapter built with a small capacity, filled    *)
(* with entries of new ids (ids are handed out in increasing order).       *)
(***************************************************************************)
Capacities == {2, EvictDivisor}

InitEvict ==
  /\ driver = "memory"
  /\ maxEntries \in Capacities
  /\ InitStore

NextId == IF savedIds = {} THEN 1 ELSE 1 + CHOOSE i \in savedIds : \A j \in savedIds : j <= i

EvictEntries(i) ==
  {Entry(i, b, "log", 0, 1) : b \in BatchIds}

NextEvict ==
  \/ /\ NextId <= EvictIds
     /\ \E e \in EvictEntries(NextId) : Save(e)
  \/ /\ NextId + 1 <= EvictIds
     /\ \E e1 \in EvictEntries(NextId), e2 \in EvictEntries(NextId + 1) :
          SaveBatch(<<e1, e2>>)

SpecEvict == InitEvict /\ [][NextEvict]_vars

(***************************************************************************)
(* SpecOps: saves (a stored id may be saved again), prune and clear, and   *)
(* the reads find, findByBatch, list without options and stats.            *)
(***************************************************************************)
Cutoffs == {0, 1, 2}

NoOptions ==
  [type |-> Undef, batchId |-> Undef, tags |-> Undef, before |-> Undef,
   after |-> Undef, limit |-> Undef, offset |-> Undef]

\* the payload plays no part in prune, findByBatch and stats
OpsEntries ==
  {Entry(i, b, ty, t, 1) : i \in Ids, b \in BatchIds, ty \in Types, t \in Times}

NextOps ==
  \/ \E e \in OpsEntries : AfterWrite /\ SaveAllowed(e) /\ Save(e)
  \/ \E c \in Cutoffs : AfterWrite /\ Prune(c)
  \/ AfterWrite /\ Clear
  \/ \E i \in Ids : AfterWrite /\ Find(i)
  \/ \E b \in BatchIds : AfterWrite /\ FindByBatch(b)
  \/ AfterWrite /\ List(NoOptions)
  \/ AfterWrite /\ Stats

SpecOps == Init /\ [][NextOps]_vars

(***************************************************************************)
(* SpecSide: the same saves of new ids, prunes and clears applied to the   *)
(* four adapters, and the same list / stats request answered by each.      *)
(***************************************************************************)
InitSide ==
  /\ driver = "memory"
  /\ maxEntries = DefaultMaxEntries
  /\ InitStore

SideNew(i) == ~HasId(side["memory"].entries, i)

\* the filter requests, and the tags requests with a limit and no offset
SideListInputs == FilterInputs \cup {o \in PageInputs : o.offset = Undef}

NextSide ==
  \/ \E e \in Entries : AfterWrite /\ SideNew(e.id) /\ SideSave(e)
  \/ \E e1, e2 \in OpsEntries :
        /\ AfterWrite /\ side = SideInit
        /\ e1.id < e2.id
        /\ SideSaveBatch(<<e1, e2>>)
  \/ \E c \in Cutoffs : AfterWrite /\ side # SideInit /\ SidePrune(c)
  \/ AfterWrite /\ side # SideInit /\ SideClear
  \/ \E o \in SideListInputs : AfterWrite /\ SideList(o)
  \/ AfterWrite /\ SideStats

SpecSide == InitSide /\ [][NextSide]_vars

(***************************************************************************)
(* SpecBatch: saves of new ids, then batches of two entries (which may     *)
(* overwrite a stored id) that succeed or fail at one of their entries.    *)
(***************************************************************************)
BatchEntries == {Entry(i, 1, "request", 0, p) : i \in Ids, p \in Payloads}

Batches == {<<e1, e2>> : e1 \in BatchEntries, e2 \in BatchEntries}

\* a batch overwrites stored ids within the bound on re-saves
BatchAllowed(es) ==
  resaves + Cardinality({k \in 1..Len(es) : find(es[k].id) # Null}) <= MaxResaves

NextBatch ==
  \/ \E e \in OpsEntries : AfterWrite /\ find(e.id) = Null /\ Save(e)
  \/ \E es \in Batches :
        /\ AfterWrite /\ BatchAllowed(es)
        /\ es[1].id # es[2].id
        /\ SaveBatch(es)
  \/ \E es \in Batches, failAt \in 1..2 :
        /\ AfterWrite /\ BatchAllowed(es)
        /\ es[1].id # es[2].id
        /\ SaveBatchFails(es, failAt)
  \/ \E i \in Ids : AfterWrite /\ Find(i)

SpecBatch == Init /\ [][NextBatch]_vars

(***************************************************************************)
(* SpecCreate: createStorageAdapter is called once with any driver name    *)
(* and options; the adapter it returns, if any, then takes saves and finds.*)
(***************************************************************************)
DriverNames == Drivers \cup {"redis", ""}

Urls == {Undef, Some(""), Some("db://host/nodescope")}

CreateOptions == Opt([databaseUrl : Urls])

InitCreate ==
  /\ driver = "none"
  /\ maxEntries = DefaultMaxEntries
  /\ InitStore

NextCreate ==
  \/ \E d \in DriverNames, options \in CreateOptions :
        /\ last.op = "none"
        /\ Create(d, options)
  \/ \E e \in OpsEntries :
        /\ driver \in Drivers /\ last.op \in {"create", "save"}
        /\ find(e.id) = Null
        /\ Save(e)
  \/ \E i \in Ids :
        /\ driver \in Drivers /\ last.op \in {"create", "save"}
        /\ Find(i)

SpecCreate == InitCreate /\ [][NextCreate]_vars

(***************************************************************************)
(* SpecApi: entries of new ids are saved to the adapter, and the dashboard *)
(* API is called on it; any storage call of a request may fail.            *)
(***************************************************************************)
NoQuery == [type |-> Undef, batchId |-> Undef, limit |-> Undef, offset |-> Undef]

\* the texts of a limit or offset query value: absent, "", "1", "abc",
\* "-1", "2x"
NumberTexts == {Undef, <<>>, <<"1">>, <<"a", "b", "c">>, <<"-", "1">>, <<"2", "x">>}

ListQueries ==
  [type : {Undef, <<"request">>}, batchId : {Undef}, limit : NumberTexts,
   offset : {Undef, <<"0">>, <<"a", "b", "c">>, <<"-", "1">>}]

Request(method, path, query) ==
  {[method |-> method, path |-> path, query |-> query, fails |-> f] : f \in BOOLEAN}

Requests ==
  UNION ({Request("GET", <<"api", "entries">>, q) : q \in ListQueries}
         \cup {Request("GET", <<"api", "entries", i>>, NoQuery) : i \in Ids}
         \cup {Request("GET", <<"api", "batch", b>>, NoQuery) : b \in BatchIds}
         \cup {Request("GET", <<"api", "stats">>, NoQuery),
               Request("DELETE", <<"api", "entries">>, NoQuery),
               Request("POST", <<"api", "prune">>, NoQuery),
               Request("GET", <<"api", "health">>, NoQuery)})

\* the store changed, or nothing happened yet
ApiAfterWrite ==
  \/ last.op \in {"none", "save"}
  \/ last.op = "handle" /\ last.arg.method # "GET" /\ ~last.arg.fails

NextApi ==
  \/ \E e \in OpsEntries : ApiAfterWrite /\ find(e.id) = Null /\ Save(e)
  \/ \E req \in Requests, cutoff \in Cutoffs :
        /\ ApiAfterWrite
        /\ Route(req) # "pruneEntries" => cutoff = 0
        /\ Handle(req, cutoff)

SpecApi == Init /\ [][NextApi]_vars

(***************************************************************************)
(* SpecScope: an orchestrator with any configuration over the in-memory or *)
(* the SQLite adapter; observers connect, disconnect and close, and        *)
(* watchers hand entries of new ids to recordEntry.                        *)
(***************************************************************************)
MaxSent == 2

Configs ==
  [enabled : BOOLEAN, realtime : BOOLEAN, filter : {Undef, Some("notQuery")},
   tag : {Undef, Some("customTags")},
   pruneAfterHours : {DefaultPruneAfterHours}, watchers : {[exception |-> TRUE]},
   authorization : {Undef}]

ScopeEntries == {Entry(i, 1, ty, 0, 1) : i \in Ids, ty \in Types}

InitScope ==
  /\ driver \in {"memory", "sqlite"}
  /\ maxEntries = DefaultMaxEntries
  /\ config \in Configs
  /\ NoObservers
  /\ NotStarted
  /\ now = 0
  /\ entries = <<>>
  /\ entriesByBatch = [b \in BatchIds |-> <<>>]
  /\ entriesByType = [ty \in AllTypes |-> <<>>]
  /\ rows = <<>>
  /\ savedIds = {}
  /\ resaves = 0
  /\ last = NoOp
  /\ side = SideInit

NextScope ==
  \/ \E e \in ScopeEntries, failing \in SUBSET ClientIds, saveThrows \in BOOLEAN :
        /\ find(e.id) = Null
        /\ failing \subseteq Range(clients)
        /\ saveThrows => driver # "memory"
        /\ ~saveThrows => \A c \in Range(clients) : Len(sent[c]) < MaxSent
        /\ RecordEntry(e, failing, saveThrows)
  \/ \E ws \in ClientIds :
        /\ readyState[ws] = 1
        /\ IF Includes(clients, ws) THEN Len(sent[ws]) < MaxSent ELSE sent[ws] = <<>>
        /\ HandleConnection(ws)
  \/ \E ws \in ClientIds : Includes(clients, ws) /\ HandleDisconnection(ws)
  \/ \E ws \in ClientIds : Includes(clients, ws) /\ SocketCloses(ws)

SpecScope == InitScope /\ [][NextScope]_vars

(***************************************************************************)
(* SpecBeat: a real-time server whose heartbeat is started and stopped in  *)
(* any order while observers connect, close and disconnect and the clock   *)
(* advances; the interval timers that are active tick in any order.        *)
(***************************************************************************)
MaxHandles == 4

MaxNow == 2

NextBeat ==
  \/ handles < MaxHandles /\ StartHeartbeat
  \/ StopHeartbeat
  \/ \E t \in timers, failing \in SUBSET ClientIds :
        /\ failing \subseteq Range(clients)
        /\ \A c \in Range(clients) : Len(sent[c]) < MaxSent
        /\ HeartbeatTick(t, failing)
  \/ now < MaxNow /\ AdvanceClock
  \/ \E ws \in ClientIds :
        /\ ~Includes(clients, ws)
        /\ readyState[ws] = 1
        /\ sent[ws] = <<>>
        /\ HandleConnection(ws)
  \/ \E ws \in ClientIds : Includes(clients, ws) /\ HandleDisconnection(ws)
  \/ \E ws \in ClientIds : Includes(clients, ws) /\ SocketCloses(ws)

SpecBeat == Init /\ [][NextBeat]_vars

(***************************************************************************)
(* SpecLife: an orchestrator whose initialize calls may overlap, closed at *)
(* any moment, with the heartbeat started and stopped from outside as      *)
(* well; the timers that are active tick in any order.                     *)
(***************************************************************************)
MaxLifeHandles == 7

Horizons == {0, 1, 2}

LifeConfigs ==
  [enabled : {TRUE}, realtime : BOOLEAN, filter : {Undef}, tag : {Undef},
   pruneAfterHours : Horizons, watchers : [exception : BOOLEAN],
   authorization : {Undef}]

InitLife ==
  /\ driver \in {"memory", "sqlite"}
  /\ maxEntries = DefaultMaxEntries
  /\ config \in LifeConfigs
  /\ NoObservers
  /\ NotStarted
  /\ now = 0
  /\ entries = <<>>
  /\ entriesByBatch = [b \in BatchIds |-> <<>>]
  /\ entriesByType = [ty \in AllTypes |-> <<>>]
  /\ rows = <<>>
  /\ savedIds = {}
  /\ resaves = 0
  /\ last = NoOp
  /\ side = SideInit

NextLife ==
  \/ \E c \in CallIds : InitializeCall(c)
  \/ \E c \in CallIds : InitializeAdapterCreated(c)
  \/ \E c \in CallIds : handles + 3 <= MaxLifeHandles /\ InitializeFinish(c)
  \/ Close
  \/ handles < MaxLifeHandles /\ StartHeartbeat
  \/ StopHeartbeat
  \/ \E t \in timers : HeartbeatTick(t, {})
  \/ \E t \in timers : PruneTick(t)

SpecLife == InitLife /\ [][NextLife]_vars

(***************************************************************************)
(* SpecRetention: an orchestrator initialized once, with any horizon; the  *)
(* clock advances an hour at a time, watchers record entries created at    *)
(* the current hour, the prune interval ticks and the orchestrator may be  *)
(* closed.                                                                 *)
(***************************************************************************)
MaxClock == 3

LifeEntries == {Entry(i, 1, "request", now, 1) : i \in Ids}

RetentionConfigs ==
  [enabled : {TRUE}, realtime : {FALSE}, filter : {Undef}, tag : {Undef},
   pruneAfterHours : Horizons, watchers : {[exception |-> FALSE]},
   authorization : {Undef}]

InitRetention ==
  /\ driver \in Drivers
  /\ maxEntries = DefaultMaxEntries
  /\ config \in RetentionConfigs
  /\ NoObservers
  /\ NotStarted
  /\ now = 0
  /\ entries = <<>>
  /\ entriesByBatch = [b \in BatchIds |-> <<>>]
  /\ entriesByType = [ty \in AllTypes |-> <<>>]
  /\ rows = <<>>
  /\ savedIds = {}
  /\ resaves = 0
  /\ last = [op |-> "none", arg |-> NoArg, prev |-> Undef, res |-> NoArg]
  /\ side = SideInit

Tick == \E t \in timers : PruneTick(t)

NextRetention ==
  \/ InitializeCall(1)
  \/ InitializeAdapterCreated(1)
  \/ InitializeFinish(1)
  \/ Close
  \/ Tick
  \/ now < MaxClock /\ AdvanceClock
  \/ \E e \in LifeEntries :
        /\ storage # Undef
        /\ find(e.id) = Null
        /\ RecordEntry(e, {}, FALSE)

SpecRetention == InitRetention /\ [][NextRetention]_vars

\* the interval fires every hour for as long as it is active
FairRetention == SpecRetention /\ WF_vars(Tick)

(***************************************************************************)
(* SpecContext: an initialized orchestrator behind the middleware; units   *)
(* of work arrive and finish in any order while the clock advances.        *)
(***************************************************************************)
NextContext ==
  \/ InitializeCall(1)
  \/ InitializeAdapterCreated(1)
  \/ InitializeFinish(1)
  \/ \E u \in UnitIds :
        /\ initialized
        /\ contexts[u] = Undef
        /\ CreateContext(u)
  \/ \E u \in UnitIds : InFlight(u) /\ FinishUnit(u)
  \/ now < MaxNow /\ AdvanceClock

SpecContext == Init /\ [][NextContext]_vars

(***************************************************************************)
(* SpecWatch: a call of the request, outbound-call or cache watcher with   *)
(* any headers, bodies and options of the sets below is pending.           *)
(***************************************************************************)
HeaderLists ==
  {<<>>} \cup {<<[name |-> n, value |-> v]>> : n \in HeaderNames, v \in HeaderValues}

Paths == {<<"users">>, <<"_nodescope", "api">>}

RequestOptions ==
  [sizeLimit : {Undef}, ignorePaths : {Undef}, captureBody : {Undef, Some(FALSE)},
   captureResponse : {Undef},
   hideHeaders : {Undef, Some(<<"x-secret">>), Some(<<"X-Secret">>)}]

RequestData ==
  [path : Paths, headers : HeaderLists, body : Values,
   response : [status : {200}, headers : HeaderLists, body : Values]]

HttpClientOptions == [sizeLimit : {Undef}]

HttpClientData ==
  [headers : HeaderLists, body : Values,
   response : [status : {200}, headers : HeaderLists, body : Values]]

CacheOptions == [enabled : {Undef}]

CacheData == [key : {"k"}, value : Values]

WatcherCalls ==
  [watcher : {"request"}, options : RequestOptions, data : RequestData]
    \cup [watcher : {"http_client"}, options : HttpClientOptions, data : HttpClientData]
    \cup [watcher : {"cache"}, options : CacheOptions, data : CacheData]

InitWatch ==
  /\ driver = "memory"
  /\ maxEntries = DefaultMaxEntries
  /\ config = DefaultConfig
  /\ NoObservers
  /\ NotStarted
  /\ now = 0
  /\ entries = <<>>
  /\ entriesByBatch = [b \in BatchIds |-> <<>>]
  /\ entriesByType = [ty \in AllTypes |-> <<>>]
  /\ rows = <<>>
  /\ savedIds = {}
  /\ resaves = 0
  /\ last \in {[op |-> "call", arg |-> c, prev |-> Undef, res |-> NoArg] : c \in WatcherCalls}
  /\ side = SideInit

NextWatch ==
  \/ Record("request")
  \/ Record("http_client")
  \/ Record("cache")

SpecWatch == InitWatch /\ [][NextWatch]_vars

(***************************************************************************)
(* SpecQuery: a call of the query watcher with any threshold, duration and *)
(* statement of the sets below is pending.                                 *)
(***************************************************************************)
Thresholds == {-1, 0, 1, 50, 99, 100, 101}

Durations == {t + k : t \in Thresholds, k \in {-1, 0, 1}}

Statements == {"SELECT 1", "  insert into t", "VACUUM"}

QueryCalls ==
  [watcher : {"query"},
   options : [slowThreshold : {Undef} \cup {Some(t) : t \in Thresholds}],
   data : [sql : Statements, duration : Durations]]

InitQuery ==
  /\ driver = "memory"
  /\ maxEntries = DefaultMaxEntries
  /\ config = DefaultConfig
  /\ NoObservers
  /\ NotStarted
  /\ now = 0
  /\ entries = <<>>
  /\ entriesByBatch = [b \in BatchIds |-> <<>>]
  /\ entriesByType = [ty \in AllTypes |-> <<>>]
  /\ rows = <<>>
  /\ savedIds = {}
  /\ resaves = 0
  /\ last \in {[op |-> "call", arg |-> c, prev |-> Undef, res |-> NoArg] : c \in QueryCalls}
  /\ side = SideInit

NextQuery == Record("query")

SpecQuery == InitQuery /\ [][NextQuery]_vars

(***************************************************************************)
(* SpecAuth: the dashboard API behind the route an adapter mounts, with no *)
(* authorization callback or one of two; entries of new ids are saved.     *)
(***************************************************************************)
AuthConfigs ==
  {[DefaultConfig EXCEPT !.authorization = a] : a \in {Undef, Some("flag"), Some("never")}}

AuthRequests ==
  {[method |-> r.method, path |-> r.path, query |-> r.query, fails |-> r.fails,
    authorized |-> a] :
      r \in {q \in Requests : q.query = NoQuery}, a \in BOOLEAN}

AuthEntries == {Entry(i, 1, "request", t, 1) : i \in Ids, t \in Times}

InitAuth ==
  /\ driver \in Drivers
  /\ maxEntries = DefaultMaxEntries
  /\ config \in AuthConfigs
  /\ NoObservers
  /\ NotStarted
  /\ now = 0
  /\ entries = <<>>
  /\ entriesByBatch = [b \in BatchIds |-> <<>>]
  /\ entriesByType = [ty \in AllTypes |-> <<>>]
  /\ rows = <<>>
  /\ savedIds = {}
  /\ resaves = 0
  /\ last = NoOp
  /\ side = SideInit

NextAuth ==
  \/ \E e \in AuthEntries : find(e.id) = Null /\ Save(e)
  \/ \E req \in AuthRequests, cutoff \in Cutoffs :
        /\ Route(req) # "pruneEntries" => cutoff = 0
        /\ ApiRoute(req, cutoff)

SpecAuth == InitAuth /\ [][NextAuth]_vars

(***************************************************************************)
(* SpecFrame: every adapter, the in-memory one with the default or a small *)
(* capacity, under saves of new ids (handed out in increasing order),      *)
(* batches, prunes, clears and the four reads.  The first two entries are  *)
(* stamped later than the others.                                          *)
(***************************************************************************)
FrameEntry(i) == Entry(i, 1, "log", IF i <= 2 THEN 1 ELSE 0, 1)

FrameCutoffs == {1, 2}

\* the database adapters, which never evict, are handed fewer entries
MaxSqlIds == 4

FrameIdsOf(d) == IF d = "memory" THEN EvictIds ELSE MaxSqlIds

InitFrame ==
  /\ driver \in Drivers
  /\ maxEntries \in {EvictDivisor, DefaultMaxEntries}
  /\ InitStore

NextFrame ==
  \/ NextId <= FrameIdsOf(driver) /\ Save(FrameEntry(NextId))
  \/ /\ NextId + 1 <= FrameIdsOf(driver)
     /\ SaveBatch(<<FrameEntry(NextId), FrameEntry(NextId + 1)>>)
  \/ \E c \in FrameCutoffs : AfterWrite /\ Stored # <<>> /\ Prune(c)
  \/ AfterWrite /\ Stored # <<>> /\ Clear
  \/ \E i \in Ids : AfterWrite /\ Find(i)
  \/ \E b \in BatchIds : AfterWrite /\ FindByBatch(b)
  \/ AfterWrite /\ List(NoOptions)
  \/ AfterWrite /\ Stats

SpecFrame == InitFrame /\ [][NextFrame]_vars

(***************************************************************************)
(* SpecIndex: the in-memory adapter under saves (a stored id may be saved  *)
(* again with another batch or type), a saveBatch that yields between its  *)
(* entries, prunes and clears, in any interleaving.                        *)
(***************************************************************************)
\* the entry of id 1 is stamped before the cutoff of the prune, the entry
\* of id 2 at it
IndexEntries == {Entry(i, b, ty, i - 1, 1) : i \in Ids, b \in BatchIds, ty \in Types}

IndexBatches ==
  {<<e1, e2>> : e1 \in {e \in IndexEntries : e.id = 1},
                e2 \in {e \in IndexEntries : e.id = 2}}

InitIndex ==
  /\ driver = "memory"
  /\ maxEntries = DefaultMaxEntries
  /\ InitStore

NextIndex ==
  \/ \E e \in IndexEntries : SaveAllowed(e) /\ Save(e)
  \/ \E es \in IndexBatches :
        /\ batchLeft = <<>>
        /\ \A k \in 1..Len(es) : SaveAllowed(es[k])
        /\ SaveBatchCall(es)
  \/ batchLeft # <<>> /\ SaveAllowed(Head(batchLeft)) /\ SaveBatchResume
  \/ Stored # <<>> /\ Prune(1)
  \/ Stored # <<>> /\ Clear

SpecIndex == InitIndex /\ [][NextIndex]_vars

(***************************************************************************)
(* SpecHook: an orchestrator is initialized and closed while failures of   *)
(* the application reach the process; a save of the database adapter may   *)
(* reject.                                                                 *)
(***************************************************************************)
MaxHookCalls == 3

InitHook ==
  /\ driver \in {"memory", "sqlite"}
  /\ maxEntries = DefaultMaxEntries
  /\ InitStore

NextHook ==
  \/ InitializeCall(1)
  \/ InitializeAdapterCreated(1)
  \/ InitializeFinish(1)
  \/ initialized /\ storage # Undef /\ Close
  \/ \E kind \in FailureKinds :
        /\ failures = <<>>
        /\ hookCalls < MaxHookCalls
        /\ Fails(kind)
  \/ \E saveThrows \in BOOLEAN :
        /\ saveThrows => driver # "memory"
        /\ hookCalls < MaxHookCalls
        /\ Cardinality(listeners) <= 1
        /\ Dispatch(saveThrows)

SpecHook == InitHook /\ [][NextHook]_vars

(***************************************************************************)
(* SpecJob: the application drives one tracker by hand while two runs of a *)
(* wrapped processor start and settle in any interleaving.                 *)
(***************************************************************************)
MaxStarts == 3
MaxTrackerCalls == 4

Results == {"result"}

TrackerCalls == Len(recorded[0])

InitJob ==
  /\ driver = "memory"
  /\ maxEntries = DefaultMaxEntries
  /\ InitStore

NextJob ==
  \/ attempts[0] < MaxStarts /\ TrackerCalls < MaxTrackerCalls /\ TrackerStart
  \/ TrackerCalls < MaxTrackerCalls /\ TrackerComplete
  \/ \E error \in Rejections :
        TrackerCalls < MaxTrackerCalls /\ TrackerFail(error)
  \/ \E r \in RunIds : WrappedCall(r)
  \/ \E r \in RunIds, result \in Results : ProcessorResolves(r, result)
  \/ \E r \in RunIds, error \in Rejections : ProcessorRejects(r, error)

SpecJob == InitJob /\ [][NextJob]_vars

(***************************************************************************)
(* Properties.                                                             *)
(***************************************************************************)
IdsOf(s) == {s[k].id : k \in 1..Len(s)}

CountId(s, i) == Cardinality({k \in 1..Len(s) : s[k].id = i})

\* the filters of a list request as the contract states them
MatchesKeys(e, o) ==
  /\ IsSome(o.type) => e.type = Val(o.type)
  /\ IsSome(o.batchId) => e.batchId = Val(o.batchId)
  /\ IsSome(o.before) => e.createdAt < Val(o.before)
  /\ IsSome(o.after) => e.createdAt > Val(o.after)

MatchesTags(e, o) ==
  (IsSome(o.tags) /\ Val(o.tags) # <<>>) =>
     (Range(e.tags) \cap Range(Val(o.tags))) # {}

Matching(o) == {k \in 1..Len(Stored) : MatchesKeys(Stored[k], o) /\ MatchesTags(Stored[k], o)}

OnlyTags(o) ==
  o.type = Undef /\ o.batchId = Undef /\ o.before = Undef /\ o.after = Undef

NoPaging(o) == o.limit = Undef /\ o.offset = Undef

\* requests that supply type and batchId together are the subject of C6
TypeAndBatch(o) == IsSome(o.type) /\ IsSome(o.batchId)

Resaved == last.op = "save" /\ last.prev # Null

\* C1: after save(E1) and save(E2) with the same id and different content,
\* find(id) has the content of E2 and the adapter holds one entry with that id.
C1_UpsertLastWriteWins ==
  (Resaved /\ Val(last.prev).content # last.arg.content) =>
     /\ find(last.arg.id) # Null
     /\ Val(find(last.arg.id)).content = last.arg.content
     /\ CountId(Stored, last.arg.id) = 1

C1_Witness ==
  /\ Resaved
  /\ driver = "mysql"
  /\ Val(last.prev).content # last.arg.content
  /\ Val(find(last.arg.id)).content = last.arg.content
  /\ Len(Stored) = 2

\* C2: a second save with a stored id leaves the entry's batchId, type and
\* createdAt as they were after the first save.
C2_SecondSaveKeepsKeyFields ==
  Resaved =>
     /\ Val(find(last.arg.id)).batchId = Val(last.prev).batchId
     /\ Val(find(last.arg.id)).type = Val(last.prev).type
     /\ Val(find(last.arg.id)).createdAt = Val(last.prev).createdAt

\* C3: after the first save of an entry, find returns an entry equal to it in
\* every field; find of an id that was never saved returns null.
C3_RoundTrip ==
  /\ (last.op = "save" /\ last.prev = Null) => find(last.arg.id) = Some(last.arg)
  /\ \A i \in Ids \ savedIds : find(i) = Null
  /\ (last.op = "find" /\ last.arg \notin savedIds) => last.res = Null

C3_Witness ==
  /\ last.op = "save"
  /\ last.prev = Null
  /\ driver = "sqlite"
  /\ last.arg.duration = Undef
  /\ last.arg.content.context = Undef
  /\ find(last.arg.id) = Some(last.arg)
  /\ \E i \in Ids \ savedIds : find(i) = Null

\* C4: the in-memory adapter never holds more than maxEntries entries.
C4_NeverMoreThanMaxEntries == Len(entries) <= maxEntries

\* C5: when entries of distinct ids are saved (ids handed out in increasing
\* order), whatever is still findable was inserted after everything that is
\* gone, and the entry just saved is findable.
C5_EvictionInInsertionOrder ==
  /\ \A i, j \in savedIds : (i < j /\ HasId(entries, i)) => HasId(entries, j)
  /\ last.op = "save" => HasId(entries, last.arg.id)
  /\ last.op = "saveBatch" => HasId(entries, last.arg[Len(last.arg)].id)

C5_Witness ==
  /\ maxEntries = EvictDivisor
  /\ Cardinality(savedIds) > maxEntries + 1
  /\ last.op = "save"
  /\ HasId(entries, last.arg.id)
  /\ ~HasId(entries, 1)
  /\ ~HasId(entries, 2)
  /\ Len(entries) = maxEntries

\* C6: list returns exactly the stored entries that satisfy every supplied
\* filter (type, batchId, before, after) at once.
C6_ListAppliesEveryFilter ==
  (last.op = "list" /\ last.arg.tags = Undef /\ NoPaging(last.arg)) =>
     /\ IdsOf(last.res.data) = {Stored[k].id : k \in Matching(last.arg)}
     /\ Len(last.res.data) = Cardinality(Matching(last.arg))

\* C7: with a non-empty tags filter every returned entry carries at least one
\* of the given tags, and a request whose only filter is tags and whose page
\* spans the store returns every stored entry that carries one of them; an
\* empty or absent tags filter excludes nothing.
C7_TagsAnyOf ==
  last.op = "list" =>
     /\ \A k \in 1..Len(last.res.data) : MatchesTags(last.res.data[k], last.arg)
     /\ (OnlyTags(last.arg) /\ last.res.offset = 0 /\ last.res.limit >= Len(Stored)) =>
           IdsOf(last.res.data) = {Stored[k].id : k \in Matching(last.arg)}

C7_Witness ==
  /\ last.op = "list"
  /\ OnlyTags(last.arg)
  /\ NoPaging(last.arg)
  /\ last.arg.tags = Some(<<"t2", "t1">>)
  /\ Len(Stored) = 2
  /\ Len(last.res.data) = 1
  /\ last.res.data[1].tags = <<"t1">>

\* C8: list(options).total is the number of stored entries that match all
\* the filters, the tags filter included (stated for the requests that do not
\* combine type and batchId).
C8_TotalCountsFilteredSet ==
  (last.op = "list" /\ ~TypeAndBatch(last.arg)) =>
     last.res.total = Cardinality(Matching(last.arg))

\* C9: hasMore is true exactly when offset + limit < total for the returned
\* total, and the returned limit and offset echo the request (50 and 0 when
\* omitted).
C9_HasMore ==
  last.op = "list" =>
     /\ last.res.hasMore = (last.res.offset + last.res.limit < last.res.total)
     /\ last.res.limit = (IF last.arg.limit = Undef THEN 50 ELSE Val(last.arg.limit))
     /\ last.res.offset = (IF last.arg.offset = Undef THEN 0 ELSE Val(last.arg.offset))

C9_Witness ==
  /\ last.op = "list"
  /\ last.arg.limit = Some(1)
  /\ last.arg.offset = Undef
  /\ last.res.total = 2
  /\ last.res.hasMore
  /\ last.res.limit = 1
  /\ last.res.offset = 0

\* C10: data is the slice [offset, offset + limit) of the filtered set sorted
\* by createdAt descending: newest first, of length
\* min(limit, max(0, total - offset)), holding only entries of the filtered set
\* (stated for the requests that do not combine type and batchId).
C10_PageIsSliceOfFilteredSet ==
  (last.op = "list" /\ ~TypeAndBatch(last.arg)) =>
     LET data == last.res.data
         n == Cardinality(Matching(last.arg))
     IN  /\ \A k \in 1..(Len(data) - 1) : data[k].createdAt >= data[k + 1].createdAt
         /\ Len(data) = Min(last.res.limit, Max(0, last.res.total - last.res.offset))
         /\ Len(data) = Min(last.res.limit, Max(0, n - last.res.offset))
         /\ IdsOf(data) \subseteq {Stored[k].id : k \in Matching(last.arg)}
         /\ Cardinality(IdsOf(data)) = Len(data)

\* the entries a read reported
Reported ==
  IF last.op = "find" THEN (IF last.res = Null THEN {} ELSE {Val(last.res)})
  ELSE IF last.op = "findByBatch" THEN Range(last.res)
  ELSE IF last.op = "list" THEN Range(last.res.data)
  ELSE {}

InBatch(b) == {k \in 1..Len(Stored) : Stored[k].batchId = b}

\* C11: findByBatch(b) returns exactly the stored entries whose batchId is b,
\* each once, ordered by createdAt ascending (so the empty list for a batch
\* that holds no stored entry).
C11_FindByBatchExact ==
  last.op = "findByBatch" =>
     /\ Range(last.res) = {Stored[k] : k \in InBatch(last.arg)}
     /\ Len(last.res) = Cardinality(InBatch(last.arg))
     /\ \A k \in 1..(Len(last.res) - 1) :
           last.res[k].createdAt <= last.res[k + 1].createdAt

\* C12: prune(cutoff) removes exactly the stored entries with createdAt <
\* cutoff, returns how many it removed and leaves the other entries findable
\* and unchanged; no read that follows reports an entry that is not stored,
\* and stats counts the stored entries only.
C12_PruneExact ==
  /\ last.op = "prune" =>
        /\ Range(Stored) = {e \in Range(last.prev) : e.createdAt >= last.arg}
        /\ Len(Stored) = Cardinality(Range(Stored))
        /\ last.res = Len(last.prev) - Len(Stored)
        /\ \A e \in Range(last.prev) :
              find(e.id) = (IF e.createdAt >= last.arg THEN Some(e) ELSE Null)
        /\ stats.totalEntries = Len(Stored)
  /\ Reported \subseteq Range(Stored)
  /\ last.op = "stats" => last.res.totalEntries = Len(Stored)

C12_Witness ==
  /\ last.op = "prune"
  /\ last.arg = 1
  /\ driver = "sqlite"
  /\ Len(last.prev) = 2
  /\ last.res = 1
  /\ Len(Stored) = 1
  /\ Stored[1].createdAt = 1

SumCounts(f) == LET RECURSIVE Sum(_)
                    Sum(S) == IF S = {} THEN 0
                              ELSE LET x == CHOOSE y \in S : TRUE
                                   IN  f[x] + Sum(S \ {x})
                IN  Sum(DOMAIN f)

\* C13: in every reachable state stats() has a count for each of the ten
\* entry types, the counts sum to totalEntries, totalEntries is the number of
\* stored entries, each count is the number of stored entries of that type,
\* and oldestEntry / newestEntry are the least / greatest createdAt of the
\* stored entries, both undefined exactly when nothing is stored.
C13_StatsAccurate ==
  /\ DOMAIN stats.entriesByType = AllTypes
  /\ Cardinality(AllTypes) = 10
  /\ SumCounts(stats.entriesByType) = stats.totalEntries
  /\ stats.totalEntries = Len(Stored)
  /\ \A ty \in AllTypes :
        stats.entriesByType[ty] = Cardinality({k \in 1..Len(Stored) : Stored[k].type = ty})
  /\ (stats.oldestEntry = Undef) = (Stored = <<>>)
  /\ (stats.newestEntry = Undef) = (Stored = <<>>)
  /\ Stored # <<>> =>
        /\ \E k \in 1..Len(Stored) : Stored[k].createdAt = Val(stats.oldestEntry)
        /\ \E k \in 1..Len(Stored) : Stored[k].createdAt = Val(stats.newestEntry)
        /\ \A k \in 1..Len(Stored) :
              /\ Val(stats.oldestEntry) <= Stored[k].createdAt
              /\ Stored[k].createdAt <= Val(stats.newestEntry)
  /\ last.op = "stats" => last.res = stats

C13_Witness ==
  /\ last.op = "stats"
  /\ driver = "sqlite"
  /\ last.res.totalEntries = 2
  /\ last.res.entriesByType["request"] = 1
  /\ last.res.entriesByType["query"] = 1
  /\ last.res.entriesByType["dump"] = 0
  /\ last.res.oldestEntry = Some(0)
  /\ last.res.newestEntry = Some(1)

\* the entries an adapter of the side-by-side run holds, as find returns them
SideStored(d) ==
  IF d = "memory" THEN side[d].entries
  ELSE [k \in 1..Len(side[d]) |-> rowToEntry(side[d][k])]

SeqOfIds(s) == [k \in 1..Len(s) |-> s[k].id]

DistinctTimes(s) == \A j, k \in 1..Len(s) : j # k => s[j].createdAt # s[k].createdAt

\* C14: on the same sequence of save / saveBatch / prune / clear calls the
\* four adapters give the same answer to the same list, stats and prune call:
\* the same total, hasMore and ids (in the same order when no two stored
\* entries share a createdAt), the same counts, the same number pruned.
C14_BackendsAgree ==
  \A d1, d2 \in Drivers :
     /\ last.op = "list" =>
           /\ last.res[d1].total = last.res[d2].total
           /\ last.res[d1].hasMore = last.res[d2].hasMore
           /\ DistinctTimes(SideStored("memory")) =>
                 SeqOfIds(last.res[d1].data) = SeqOfIds(last.res[d2].data)
     /\ last.op = "stats" => last.res[d1] = last.res[d2]
     /\ last.op = "prune" => last.res[d1] = last.res[d2]

\* C15: a saveBatch in which the write of one entry fails throws; on the
\* SQLite, PostgreSQL and MySQL adapters the store is then what it was before
\* the call and no pool connection stays checked out; on the in-memory
\* adapter the entries before the failing one are stored as given and the
\* failing one and those after it are not applied.
C15_SaveBatchAllOrNothing ==
  last.op = "saveBatchFails" =>
     LET es == last.arg.entries
         failAt == last.arg.failAt
     IN  /\ last.res.threw
         /\ driver # "memory" =>
               /\ Stored = last.prev
               /\ last.res.leased = 0
         /\ driver = "memory" =>
               /\ \A k \in 1..(failAt - 1) : find(es[k].id) = Some(es[k])
               /\ \A k \in failAt..Len(es) :
                     find(es[k].id) =
                        (IF HasId(last.prev, es[k].id)
                         THEN Some(last.prev[IndexOfId(last.prev, es[k].id)])
                         ELSE Null)

C15_Witness ==
  /\ last.op = "saveBatchFails"
  /\ driver = "postgresql"
  /\ last.arg.failAt = 2
  /\ Len(last.prev) = 1
  /\ HasId(last.prev, last.arg.entries[1].id)
  /\ last.arg.entries[1] # last.prev[1]
  /\ Stored = last.prev
  /\ last.res.threw

\* the in-memory case of C15: entries applied before the failure stay
C15_MemoryWitness ==
  /\ last.op = "saveBatchFails"
  /\ driver = "memory"
  /\ last.arg.failAt = 2
  /\ last.prev = <<>>
  /\ Stored = <<last.arg.entries[1]>>

\* C16: createStorageAdapter throws, returning no adapter, when the driver is
\* postgresql or mysql and the connection string is missing or empty and when
\* the driver is none of the four known ones; in every other case it returns
\* the adapter of that driver, for sqlite with the default file path when no
\* path is given.
C16_CreateFailsFast ==
  /\ last.op = "create" =>
        LET d == last.arg.driver
            url == DatabaseUrlOf(last.arg.options)
            missing == url \in {Undef, Some("")}
        IN  /\ last.res.threw =
                  ((d \in {"postgresql", "mysql"} /\ missing) \/ d \notin Drivers)
            /\ last.res.threw => driver = "none"
            /\ ~last.res.threw => (driver = d /\ last.res.driver = d)
            /\ d \in {"memory", "sqlite"} => ~last.res.threw
            /\ (d = "sqlite" /\ missing) => last.res.arg = Some(DefaultDbPath)
            /\ (d \in {"sqlite", "postgresql", "mysql"} /\ ~missing /\ ~last.res.threw) =>
                  last.res.arg = url
  /\ driver \in Drivers \cup {"none"}
  /\ driver = "none" => Stored = <<>>

C16_Witness ==
  /\ last.op = "create"
  /\ last.arg.driver = "postgresql"
  /\ last.arg.options = Some([databaseUrl |-> Some("")])
  /\ last.res.threw
  /\ driver = "none"

\* C17: handle never rejects: when the storage call of a request (list, get
\* by id, get batch, stats, clear, prune) rejects, the promise handle returns
\* is fulfilled with a response of status 500 whose body carries the error
\* message.
C17_HandleNeverRejects ==
  last.op = "handle" =>
     /\ last.res.state = "fulfilled"
     /\ (last.arg.fails /\ Route(last.arg) # "notFound") =>
           /\ last.res.value.status = 500
           /\ last.res.value.body = [error |-> "storage failed"]

\* C18: the options handed to storage.list carry no NaN and no negative
\* limit or offset: a query value that is a non-negative integer is passed
\* as that number, an absent or empty one leaves the option undefined (the
\* adapter's default 50 / 0), and any other text gives the default.
C18_SafePagingDefaults ==
  (last.op = "handle" /\ Route(last.arg) = "listEntries") =>
     /\ SafePaging(last.prev)
     /\ last.arg.query.limit = <<"1">> => last.prev.limit = Some(1)
     /\ last.arg.query.offset = <<"0">> => last.prev.offset = Some(0)
     /\ ~QueryGiven(last.arg.query.limit) => last.prev.limit = Undef
     /\ ~QueryGiven(last.arg.query.offset) => last.prev.offset = Undef

\* C19: a recordEntry call made while the orchestrator is disabled, or for
\* an entry the filter callback returns false for, saves nothing, sends no
\* message to any observer and leaves the entry's tags as they were.
C19_RecordEntryFrame ==
  (/\ last.op = "recordEntry"
   /\ (~config.enabled \/ (config.filter # Undef /\ ~ApplyFilter(config.filter, last.arg)))) =>
     /\ ~last.res.saved
     /\ find(last.arg.id) = last.prev
     /\ sent = last.res.sent
     /\ clients = last.res.clients
     /\ last.res.entry.tags = last.arg.tags
     /\ last.res.entry = last.arg

C19_Witness ==
  /\ last.op = "recordEntry"
  /\ config.enabled
  /\ config.filter = Some("notQuery")
  /\ config.tag = Some("customTags")
  /\ config.realtime
  /\ last.arg.type = "query"
  /\ Len(clients) = 2
  /\ Len(Stored) = 1
  /\ find(last.arg.id) = Null
  /\ last.res.entry = last.arg

\* C20: with a tag callback configured, the entry a recordEntry call saves
\* has the tags the entry came with followed by the callback's tags, each
\* once and in that order; without one the tags are saved as they came.
C20_TagsAppendedOnce ==
  (last.op = "recordEntry" /\ last.res.saved) =>
     /\ find(last.arg.id) # Null
     /\ Val(find(last.arg.id)).tags =
           (IF config.tag # Undef
            THEN last.arg.tags \o ApplyTag(config.tag, last.arg)
            ELSE last.arg.tags)
     /\ last.res.entry.tags = Val(find(last.arg.id)).tags

C20_Witness ==
  /\ last.op = "recordEntry"
  /\ last.res.saved
  /\ driver = "sqlite"
  /\ config.tag = Some("customTags")
  /\ config.filter = Some("notQuery")
  /\ Val(find(last.arg.id)).tags = <<"t1", "custom-tag", "another-tag">>

\* the entry messages in the data an observer was sent
EntryMessagesOf(c) == {k \in 1..Len(sent[c]) : sent[c][k].type = "entry"}

\* the id member of an entry message's data
MessageId(m) == m.data[1][2]

\* C21: with realtime enabled, a recordEntry call whose save succeeded has
\* sent the entry's message once to every observer that was registered and
\* open (and whose send did not throw) and to no one else; a call whose
\* save failed has sent nothing; every entry message an observer was ever
\* sent is that of an entry the storage holds, and no observer was sent the
\* same entry twice.
C21_EntryAfterSave ==
  /\ (last.op = "recordEntry" /\ config.realtime /\ last.res.saved) =>
        /\ find(last.arg.id) # Null
        /\ \A c \in ClientIds :
              sent[c] = IF /\ Includes(last.res.clients, c)
                           /\ readyState[c] = 1
                           /\ c \notin last.res.failing
                        THEN Append(last.res.sent[c], EntryMessage(last.res.entry))
                        ELSE last.res.sent[c]
  /\ (last.op = "recordEntry" /\ ~last.res.saved) =>
        /\ sent = last.res.sent
        /\ find(last.arg.id) = last.prev
  /\ \A c \in ClientIds :
        /\ \A k \in EntryMessagesOf(c) :
              /\ find(MessageId(sent[c][k])) # Null
              /\ sent[c][k] = EntryMessage(Val(find(MessageId(sent[c][k]))))
        /\ \A k, l \in EntryMessagesOf(c) :
              MessageId(sent[c][k]) = MessageId(sent[c][l]) => k = l

\* a save that failed with two open observers registered, one of which was
\* sent an earlier entry: neither was sent the entry of the failed call
C21_SaveFailsWitness ==
  /\ last.op = "recordEntry"
  /\ config.realtime
  /\ last.res.threw
  /\ Len(clients) = 2
  /\ \A c \in ClientIds : readyState[c] = 1
  /\ \E c \in ClientIds : EntryMessagesOf(c) # {}
  /\ find(last.arg.id) = Null

\* a save that succeeded with two open observers: each was sent the entry
C21_Witness ==
  /\ last.op = "recordEntry"
  /\ config.realtime
  /\ last.res.saved
  /\ last.res.failing = {}
  /\ Len(last.res.clients) = 2
  /\ \A c \in ClientIds :
        /\ readyState[c] = 1
        /\ sent[c] = Append(last.res.sent[c], EntryMessage(last.res.entry))

\* the observers of a registry whose send was attempted and threw
FailedSends(registry, failing) ==
  {c \in Range(registry) : readyState[c] = 1 /\ c \in failing}

\* C22: when the send to an observer throws during the broadcast of a
\* recordEntry call, the call does not reject, the observer is no longer
\* registered and was sent nothing, and every other observer that was
\* registered and open was sent the message once and is still registered.
C22_FailedSendDeregisters ==
  (/\ last.op = "recordEntry" /\ config.realtime /\ last.res.saved
   /\ FailedSends(last.res.clients, last.res.failing) # {}) =>
     LET failed == FailedSends(last.res.clients, last.res.failing)
     IN  /\ ~last.res.threw
         /\ clients = SelectSeq(last.res.clients, LAMBDA c : c \notin failed)
         /\ \A c \in failed : sent[c] = last.res.sent[c]
         /\ \A c \in Range(last.res.clients) \ failed :
               sent[c] = IF readyState[c] = 1
                         THEN Append(last.res.sent[c], EntryMessage(last.res.entry))
                         ELSE last.res.sent[c]

\* the first registered observer's send threw and the second was sent the
\* entry
C22_Witness ==
  /\ last.op = "recordEntry"
  /\ config.realtime
  /\ last.res.saved
  /\ Len(last.res.clients) = 2
  /\ last.res.failing = {last.res.clients[1]}
  /\ \A c \in ClientIds : readyState[c] = 1
  /\ clients = <<last.res.clients[2]>>
  /\ sent[last.res.clients[2]] =
        Append(last.res.sent[last.res.clients[2]], EntryMessage(last.res.entry))

\* C23: handleConnection(ws) leaves ws registered, once, and an open ws is
\* sent one "connected" message whose clients member is the number of
\* observers registered, ws included; handleDisconnection(ws) leaves ws
\* unregistered and the others as they were; clientCount is the number of
\* distinct observers registered.
C23_ConnectionCount ==
  /\ clientCount = Cardinality(Range(clients))
  /\ last.op = "handleConnection" =>
        /\ Range(clients) = Range(last.res.clients) \cup {last.arg.ws}
        /\ \A c \in ClientIds :
              sent[c] = IF c = last.arg.ws /\ readyState[c] = 1
                        THEN Append(last.res.sent[c], ConnectedMessage(clientCount))
                        ELSE last.res.sent[c]
  /\ last.op = "handleDisconnection" =>
        /\ Range(clients) = Range(last.res.clients) \ {last.arg.ws}
        /\ sent = last.res.sent

\* the second observer connects while the first is registered and is told
\* there are two
C23_Witness ==
  /\ last.op = "handleConnection"
  /\ Len(last.res.clients) = 1
  /\ ~Includes(last.res.clients, last.arg.ws)
  /\ clientCount = 2
  /\ sent[last.arg.ws] = <<ConnectedMessage(2)>>

\* an observer that is registered connects again: the count stays
C23_AgainWitness ==
  /\ last.op = "handleConnection"
  /\ Includes(last.res.clients, last.arg.ws)
  /\ clientCount = 1
  /\ sent[last.arg.ws] = <<ConnectedMessage(1), ConnectedMessage(1)>>

\* C24: at most one heartbeat timer is active and it is the one the server
\* holds in heartbeatInterval; a startHeartbeat while one is running
\* changes nothing; after stopHeartbeat none is active; a ping comes from
\* the timer the server holds and reaches each registered open observer
\* once.
C24_SingleHeartbeat ==
  /\ Cardinality(TimersOf("heartbeat")) <= 1
  /\ TimersOf("heartbeat") =
        (IF heartbeatInterval = Undef THEN {}
         ELSE {[id |-> Val(heartbeatInterval), kind |-> "heartbeat"]})
  /\ (last.op = "startHeartbeat" /\ last.res.before.life.heartbeatInterval # Undef) =>
        life = last.res.before.life
  /\ last.op = "stopHeartbeat" => TimersOf("heartbeat") = {}
  /\ last.op = "heartbeatTick" =>
        /\ heartbeatInterval = Some(last.arg.timer)
        /\ \A c \in ClientIds :
              sent[c] = IF /\ Includes(last.res.clients, c)
                           /\ readyState[c] = 1
                           /\ c \notin last.res.failing
                        THEN Append(last.res.sent[c], PingMessage(now))
                        ELSE last.res.sent[c]

\* a startHeartbeat while the heartbeat is running
C24_Witness ==
  /\ last.op = "startHeartbeat"
  /\ last.res.before.life.heartbeatInterval # Undef
  /\ Cardinality(timers) = 1
  /\ Len(clients) = 2

\* a stopHeartbeat of a heartbeat that was started a second time
C24_StopWitness ==
  /\ last.op = "stopHeartbeat"
  /\ last.res.before.life.heartbeatInterval = Some(2)
  /\ timers = {}

\* C25: an initialize call made when the orchestrator is initialized
\* returns at once and leaves the adapter in this.storage, the number of
\* adapters created, the timers, the process listeners and the cleanup
\* functions as they were.
C25_InitializeOnce ==
  (last.op = "initialize" /\ last.res.before.initialized) =>
     /\ Started = last.res.before
     /\ calls[last.arg.call].pc = "idle"

\* a second initialize on an orchestrator that holds an adapter, the
\* heartbeat, the prune interval and the error handlers
C25_Witness ==
  /\ last.op = "initialize"
  /\ last.res.before.initialized
  /\ storage = Some(1)
  /\ adapters = 1
  /\ Cardinality(TimersOf("heartbeat")) = 1
  /\ Cardinality(TimersOf("prune")) = 1
  /\ Cardinality(listeners) = 1
  /\ Len(cleanupFns) = 2

NotBefore(stored, c) == SelectSeq(stored, LAMBDA e : ~(e.createdAt < c))

\* entry i is stored, older than the horizon, and the scheduler is running
Overdue(i) ==
  /\ find(i) # Null
  /\ IF find(i) # Null
     THEN now - Val(find(i)).createdAt > config.pruneAfterHours
     ELSE FALSE
  /\ TimersOf("prune") # {}

\* what a tick of the prune interval leaves: the entries not created
\* before the clock's hour less the horizon, every entry younger than the
\* horizon among them; and no prune interval with a horizon of 0
SweepExact ==
  /\ last.op = "pruneTick" =>
        /\ last.res.cutoff = now - config.pruneAfterHours
        /\ SeqOfIds(Stored) = SeqOfIds(NotBefore(last.res.before, last.res.cutoff))
        /\ \A k \in 1..Len(last.res.before) :
              now - last.res.before[k].createdAt < config.pruneAfterHours =>
                 find(last.res.before[k].id) = Some(last.res.before[k])
  /\ config.pruneAfterHours = 0 => TimersOf("prune") = {}

\* C27: a tick of the prune interval calls prune with the clock's hour less
\* the horizon H: it removes the stored entries created before that cutoff
\* and keeps the others, among them every entry younger than H hours; with
\* H = 0 there is no prune interval; and, the interval firing for as long
\* as it is active, an entry older than H hours is eventually removed
\* unless the orchestrator is closed.
C27_RetentionSweep ==
  /\ []SweepExact
  /\ \A i \in Ids : Overdue(i) ~> ~Overdue(i)

\* a tick two hours after an entry was recorded, with a horizon of one
\* hour, removed it and kept the entry recorded in the last hour
C27_Witness ==
  /\ last.op = "pruneTick"
  /\ config.pruneAfterHours = 1
  /\ Len(last.res.before) = 2
  /\ Len(Stored) = 1
  /\ now - Stored[1].createdAt = 1

\* C28: the contexts of two units have different batch ids; the request
\* entry recorded for a unit carries the batch id and the duration of that
\* unit's context; and a createContext call by one unit leaves the batch
\* id the orchestrator exposes as it was while another unit is in flight.
C28_ContextsIndependent ==
  /\ \A u, v \in UnitIds :
        (u # v /\ contexts[u] # Undef /\ contexts[v] # Undef) =>
           Val(contexts[u]).batchId # Val(contexts[v]).batchId
  /\ \A u \in UnitIds :
        (contexts[u] # Undef /\ find(u) # Null) =>
           /\ Val(find(u)).batchId = Val(contexts[u]).batchId
           /\ Val(find(u)).duration =
                 Some(Val(find(u)).createdAt - Val(contexts[u]).startTime)
  /\ last.op = "createContext" =>
        \A u \in UnitIds \ {last.arg.unit} :
           InFlight(u) => batchId = last.res.before

\* the field of unknown type a watcher serializes, and what it stored of it
UnknownFields(arg, content) ==
  IF arg.watcher = "cache"
    THEN {[given |-> arg.data.value, stored |-> content.value]}
    ELSE {[given |-> arg.data.body, stored |-> content.body],
          [given |-> arg.data.response.body, stored |-> content.response.body]}

Serializable(v) ==
  \/ v = Undef
  \/ v = Null
  \/ Val(v).kind \in {"small", "large"}

\* C29: no watcher's record throws, whatever it is handed: it returns an
\* entry or null, and a body or value that cannot be serialized (a
\* circular reference, a value whose serialization is undefined) is
\* stored as the unserializable sentinel.
C29_RecordNeverThrows ==
  last.op = "record" =>
    /\ ~last.res.threw
    /\ last.res.value # Null =>
          \A f \in UnknownFields(last.arg, Val(last.res.value)) :
             ~Serializable(f.given) => f.stored = Unserializable

\* the names a watcher is configured to hide
HiddenNames(arg) ==
  IF arg.watcher = "request"
    THEN RequestWatcher(arg.options).hideHeaders
    ELSE sensitiveHeaders

\* the header name matches a hidden name, letter case aside
IsHidden(arg, name) ==
  \E j \in 1..Len(HiddenNames(arg)) :
     toLowerCase(HiddenNames(arg)[j]) = toLowerCase(name)

WithValue(headers, i, v) == [headers EXCEPT ![i].value = v]

\* C30: the content a request or outbound-call watcher stores does not
\* depend on the value of a hidden header: a header whose name matches a
\* configured hidden name, whatever the letter case of either, is stored
\* as the fixed sentinel, among the request headers and among the response
\* headers alike, and a call that differs only in that header's value
\* produces the same content.
C30_HiddenHeaderIndependent ==
  (/\ last.op = "record"
   /\ last.arg.watcher \in {"request", "http_client"}
   /\ ~last.res.threw
   /\ last.res.value # Null) =>
    LET arg == last.arg
        content == Val(last.res.value)
    IN  /\ \A i \in 1..Len(arg.data.headers) :
              IsHidden(arg, arg.data.headers[i].name) =>
                /\ content.headers[i].value = Hidden
                /\ \A v \in HeaderValues :
                      record(arg.watcher, arg.options,
                             [arg.data EXCEPT !.headers = WithValue(@, i, v)]) = last.res
        /\ \A i \in 1..Len(arg.data.response.headers) :
              IsHidden(arg, arg.data.response.headers[i].name) =>
                /\ content.response.headers[i].value = Hidden
                /\ \A v \in HeaderValues :
                      record(arg.watcher, arg.options,
                             [arg.data EXCEPT !.response.headers = WithValue(@, i, v)]) = last.res

\* the threshold the query watcher compares with
ThresholdOf(arg) ==
  IF arg.options.slowThreshold = Undef THEN 100 ELSE Val(arg.options.slowThreshold)

\* C31: the query watcher sets content.slow and adds the tag 'slow' exactly
\* when the duration is greater than the threshold, 100 when none is
\* configured: a duration equal to the threshold is not slow, one above it
\* is; content.slow is true exactly when the tag 'slow' is present.
C31_SlowStrictlyAbove ==
  (last.op = "record" /\ last.arg.watcher = "query") =>
    LET entry == Val(last.res.value)
    IN  /\ ~last.res.threw
        /\ entry.slow <=> last.arg.data.duration > ThresholdOf(last.arg)
        /\ entry.slow <=> Includes(entry.tags, "slow")

\* a query that took exactly the default threshold was recorded as not slow
C31_Witness ==
  /\ last.op = "record"
  /\ last.arg.watcher = "query"
  /\ last.arg.options.slowThreshold = Undef
  /\ last.arg.data.duration = 100
  /\ ~Val(last.res.value).slow
  /\ Val(last.res.value).tags = <<"query:select">>

\* a query one millisecond above a configured threshold was recorded as slow
C31_AboveWitness ==
  /\ last.op = "record"
  /\ last.arg.watcher = "query"
  /\ last.arg.options.slowThreshold = Some(50)
  /\ last.arg.data.duration = 51
  /\ Val(last.res.value).slow
  /\ Includes(Val(last.res.value).tags, "slow")

\* C37: after a broadcast every observer still in the registry is one the
\* message was sent to: an observer whose transport is not open is dropped
\* from the registry by the broadcast rather than kept.
C37_BroadcastDropsDead ==
  (last.op = "recordEntry" /\ last.res.saved /\ config.realtime) =>
    \A c \in Range(clients) :
       /\ readyState[c] = 1
       /\ sent[c] = Append(last.res.sent[c], EntryMessage(last.res.entry))

\* C36: a request to the API route for which checkAuthorization yields
\* false is answered 403 and reaches no storage operation, so the store is
\* as it was; the handler runs only for a request checkAuthorization
\* accepted; checkAuthorization is true for every request when no callback
\* is configured and the callback's result otherwise.
C36_UnauthorizedReachesNothing ==
  /\ last.op = "apiRoute" =>
        /\ last.res.status = 403
        /\ Stored = last.prev
  /\ last.op \in {"apiRoute", "handle"} =>
        LET allowed == IF config.authorization = Undef THEN TRUE
                       ELSE CallAuthorization(Val(config.authorization), last.arg)
        IN  allowed <=> last.op = "handle"
  /\ \A req \in AuthRequests :
        checkAuthorization(config, req) =
          (config.authorization = Undef
             \/ CallAuthorization(Val(config.authorization), req))

\* a DELETE of the entries by a request the callback refused was answered
\* 403 and the stored entry is still there
C36_Witness ==
  /\ last.op = "apiRoute"
  /\ config.authorization = Some("flag")
  /\ ~last.arg.authorized
  /\ last.arg.method = "DELETE"
  /\ last.res.status = 403
  /\ Len(Stored) = 1

\* the same DELETE by a request the callback accepted emptied the store
C36_AllowedWitness ==
  /\ last.op = "handle"
  /\ config.authorization = Some("flag")
  /\ last.arg.authorized
  /\ last.arg.method = "DELETE"
  /\ ~last.arg.fails
  /\ savedIds # {}
  /\ Len(Stored) = 0

\* the ids an operation of SpecFrame may have been handed
FrameIds == 1..(EvictIds + 1)

\* the entry stored under i is found unchanged after the step
Kept(i) == find(i)' = find(i)

\* the step is a prune with a cutoff later than the entry's createdAt, or a
\* clear, and the entry is gone
Deleted(i) ==
  /\ find(i)' = Null
  /\ \/ last'.op = "clear"
     \/ last'.op = "prune" /\ Val(find(i)).createdAt < last'.arg

\* the step is a save or saveBatch on the in-memory adapter that found it
\* at capacity, and the entry is gone together with every entry inserted
\* before it
Evicted(i) ==
  /\ driver = "memory"
  /\ last'.op \in {"save", "saveBatch"}
  /\ Len(entries') <= maxEntries
  /\ Len(entries) + 2 > maxEntries
  /\ \A j \in FrameIds :
        (HasId(entries, j) /\ IndexOfId(entries, j) <= IndexOfId(entries, i)) =>
           find(j)' = Null

\* C33 as stated: on every adapter a stored entry stops being findable
\* only by a prune whose cutoff is later than its createdAt or by a clear;
\* no save of another id, saveBatch or read removes or alters it.
C33_DeletedOnlyByPruneOrClear ==
  [][\A i \in FrameIds : find(i) # Null => (Kept(i) \/ Deleted(i))]_vars

\* C33 amended: a stored entry stays findable and unchanged through every
\* save of another id, saveBatch and read, and goes only by a prune whose
\* cutoff is later than its createdAt, by a clear, or, on the in-memory
\* adapter, by a save that found the adapter at capacity and evicted the
\* entries inserted first.
C33_DeletedOnlyByPruneClearOrEviction ==
  [][\A i \in FrameIds : find(i) # Null => (Kept(i) \/ Deleted(i) \/ Evicted(i))]_vars

\* the in-memory adapter of capacity 10 has lost the first entry, which no
\* prune could remove without the second, to the save of another id
C33_Witness ==
  /\ driver = "memory"
  /\ last.op = "save"
  /\ 1 \in savedIds
  /\ find(1) = Null
  /\ find(2) # Null
  /\ Len(entries) = maxEntries

\* a prune on a database adapter removed the entries stamped before the
\* cutoff and kept the two stamped at it
C33_PruneWitness ==
  /\ driver = "postgresql"
  /\ last.op = "prune"
  /\ last.arg = 1
  /\ Len(last.prev) = 4
  /\ Len(Stored) = 2

\* C34: in the in-memory adapter the primary map and the two indexes agree
\* in every reachable state: an id is in the per-batch index under b
\* exactly when a stored entry with that id has batchId b, and in the
\* per-type index under t exactly when a stored entry with that id has
\* type t.
C34_IndexesAgree ==
  driver = "memory" =>
    \A i \in Ids :
       /\ \A b \in BatchIds :
             Includes(entriesByBatch[b], i) <=>
               \E k \in 1..Len(entries) : entries[k].id = i /\ entries[k].batchId = b
       /\ \A ty \in AllTypes :
             Includes(entriesByType[ty], i) <=>
               \E k \in 1..Len(entries) : entries[k].id = i /\ entries[k].type = ty

\* the indexes agree with the map as long as no stored id was saved again
C34_AgreeWithoutResave == resaves = 0 => C34_IndexesAgree

\* C35: initialize calls that overlap have the effect of one call: one
\* storage adapter is created and kept, and at most one retention timer
\* and one pair of global error listeners exist.
C35_OverlapIsOneCall ==
  /\ adapters <= 1
  /\ storage # Undef => storage = Some(1)
  /\ Cardinality(TimersOf("prune")) <= 1
  /\ Cardinality(listeners) <= 1

\* C32: a failure that reaches the global hook is recorded as exactly one
\* Exception entry whose tags mark it as uncaught, and the hook does not
\* swallow it: the process ends up as it does without the hook, where an
\* uncaught failure makes it exit.
C32_CapturedNotSwallowed ==
  (last.op = "dispatch" /\ last.res.hooked) =>
    /\ last.res.entry.type = "exception"
    /\ last.res.saved => find(last.res.entry.id) = Some(last.res.entry)
    /\ Includes(last.res.entry.tags, "uncaught")
    /\ exited

\* without the hook the failure makes the process exit
C32_DefaultDisposition ==
  (last.op = "dispatch" /\ ~last.res.hooked) => exited

\* C39: capturing terminates: a failure of the save inside the hook does
\* not come back to the hook, so every failure the hook captures is one of
\* the application.
C39_HookDoesNotReenter ==
  (last.op = "dispatch" /\ last.res.hooked) => last.arg.origin = "application"

\* the records of tracker t, in the order they were made
RecordsOf(t) == recorded[t]

\* the number of start() calls among the first i records of tracker t
StartsUpTo(t, i) ==
  Cardinality({j \in 1..i : RecordsOf(t)[j].status = "processing"})

Statuses(t) == [i \in 1..Len(RecordsOf(t)) |-> RecordsOf(t)[i].status]

\* C38: on every tracker the k-th start() records 'processing' with
\* attempts = k and every complete() or fail() records the number of
\* start() calls made so far; a run of a wrapped processor has recorded
\* 'processing' while it awaits, then exactly 'processing', 'completed' and
\* returned the result if the processor resolved, or exactly 'processing',
\* 'failed' and thrown the very value the processor rejected with.
C38_AttemptsAndTwoRecords ==
  /\ \A t \in TrackerIds : \A i \in 1..Len(RecordsOf(t)) :
        RecordsOf(t)[i].attempts = StartsUpTo(t, i)
  /\ \A r \in RunIds :
        /\ runs[r].pc = "idle" => Statuses(r) = <<>>
        /\ runs[r].pc = "awaiting" => Statuses(r) = <<"processing">>
        /\ runs[r].pc = "resolved" =>
              /\ Statuses(r) = <<"processing", "completed">>
              /\ runs[r].returned = runs[r].result
        /\ runs[r].pc = "rejected" =>
              /\ Statuses(r) = <<"processing", "failed">>
              /\ runs[r].thrown = runs[r].error
              /\ RecordsOf(r)[2].error = Some(runs[r].error.message)

\* three starts of one tracker, a completion after them, a resolved run
\* and a rejected run
C38_Witness ==
  /\ attempts[0] = 3
  /\ RecordsOf(0)[Len(RecordsOf(0))].status # "processing"
  /\ \E r \in RunIds : runs[r].pc = "resolved"
  /\ \E r \in RunIds : runs[r].pc = "rejected" /\ ~runs[r].error.isError

====
